---- MODULE Spec2Model ----
(***************************************************************************)
(* Room/mailbox engine of noisytransfer (package hub) together with the    *)
(* WebSocket connection supervisor (handler.NewWSHandler) that drives it.  *)
(*                                                                         *)
(* One room (appID "U"), two sides, a bounded number of sockets.  Every    *)
(* section of code that runs with Hub.mu held is one action; the places    *)
(* where pushAllLocked, BroadcastEvent and the handler run without the     *)
(* lock are separate actions, so other handlers interleave there.          *)
(***************************************************************************)
EXTENDS Integers, Sequences, FiniteSets, TLC

\* ------------------------------------------------------------------ bounds
MaxConns    == 3     \* sockets ever opened (RoomSpec, LiveSpec)
MsgConns    == 2     \* sockets ever opened (Spec)
MaxSeq      == 2     \* Spec offers a send frame only while nextSeq < MaxSeq
LiveMaxSeq  == 1     \* the same cap in LiveSpec
MaxBacklog  == 1     \* scaled value of maxMailboxQueued
MaxIdle     == 1     \* scaled value of roomTTL / gcInterval
MaxSignals  == 1     \* signaling frames sent (SignalSpec)
MaxWorkers  == 2     \* requests of the object store served at a time
MaxNow      == 1     \* ticks of the object store's clock
MaxAge      == 1     \* scaled value of the object TTL
MaxCrashes  == 1     \* crashes of the server process followed in a behaviour

\* ------------------------------------------------------- program constants
gcInterval       == 1                       \* one tick of gcLoop's ticker
roomTTL          == MaxIdle * gcInterval
maxMailboxQueued == MaxBacklog

AppID      == "U"
AppIDs     == {AppID}
Sides      == {"A", "B"}
\* "to" of a send frame is client text.  The two mailboxes are symmetric and
\* independent: the model addresses messages to B (from A and from B itself).
ToValues   == {"B", "X"}
Payloads   == {"p"}
Conns      == 1..MaxConns
\* deliveredUpTo / upTo are client numbers, not bounded by nextSeq
Watermarks(cap) == 0..cap

NoRoom == [nil |-> TRUE]
NoConn == 0

\* ------------------------------------------------------------ object store
Workers  == 1..MaxWorkers
\* complete upload streams; a stream that broke off has left Partial
Bytes    == {"x", "y"}
Partial  == "part"
Manifest == "m"
objTTL   == MaxAge

\* hex.EncodeToString(sha256(b)): one tag per content
sha256(b) == CASE b = "x" -> "sha(x)" [] b = "y" -> "sha(y)"
               [] b = "part" -> "sha(part)" [] OTHER -> "sha()"
\* the number of bytes io.Copy reports
size(b) == CASE b = "x" -> 2 [] b = "y" -> 3 [] b = "part" -> 1 [] OTHER -> 0

\* Meta{Size, ETag, CreatedAt, Committed}
zeroMeta == [size |-> 0, etag |-> "", createdAt |-> 0, committed |-> FALSE]

\* a file: ex (the path exists) and its data; a meta file whose JSON does
\* not decode (created, not yet encoded) has full = FALSE
noFile     == [ex |-> FALSE, data |-> ""]
noMetaFile == [ex |-> FALSE, full |-> FALSE, m |-> zeroMeta]
noObject   == [dir |-> FALSE, blobTmp |-> noFile, blob |-> noFile,
               manifest |-> noFile, meta |-> noMetaFile, metaTmp |-> noMetaFile]

\* A request: op and pc say where the handler is; x is the stream of a PUT,
\* m the Meta value the handler holds, fd the file its open descriptor now
\* names ("none": closed or unlinked), resp the response to the request
\* worker 1 served last, until it takes the next one.
\* trail is the run of calls worker 1 has last answered with success, as
\* far as it goes along PutBlob(x); PutManifest; Commit (n calls of it);
\* n = 4 after a PutBlob(y) that follows the Commit of x.
noResp  == [op |-> "-", status |-> 0, body |-> "", etag |-> ""]
noTrail == [n |-> 0, x |-> "", y |-> ""]
idleRequest == [op |-> "-", pc |-> "idle", x |-> "", m |-> zeroMeta,
                fd |-> "none", resp |-> noResp, trail |-> noTrail]

VARIABLES
    rooms,       \* Hub.rooms: appID -> room | NoRoom
    byConn,      \* Hub.byConn: socket -> [appID, side]   (a Go map: partial)
    th,          \* per socket: the goroutine running NewWSHandler's closure
    unreg,       \* sockets with a spawned `go h.Unregister(appID, cur.ws)` pending
    closed,      \* socket -> ws.Close() has been called on it
    closeFrame,  \* socket -> the close frame written to it (<<>> if none)
    got,         \* socket -> set of seq of the deliver frames written to it
    roomFull,    \* socket -> number of room_full events written to it
    assigned,    \* side -> seqs assigned by Enqueue in the mailbox's lifetime
    okSeqs,      \* side -> seqs whose Enqueue did not hit the backlog limit
    ackFloor,    \* side -> deliveredUpTo left by the latest AckUpTo
    sig,         \* socket -> the signaling frames written to it, by number
    sent,        \* the senders of the signaling frames, in order of receipt
    fs,          \* the directory ROOT/objects/{id} of one object and its files
    rq,          \* worker -> the HTTP request (or GC run) it is serving
    now,         \* the clock of the object store, in ticks
    created,     \* Create of the object: "no", "call", "ok" or "err"
    okCommit,    \* a Commit of the object has returned success
    okBlobs,     \* the streams of the PutBlob calls that returned success
    crashed,     \* the requests the server process was serving when it died
    ping,        \* socket -> the ping goroutine of its handler
    mu,          \* the socket whose handler holds Hub.mu in Register, or NoConn
    wmu          \* socket -> the socket whose handler holds its connWrap.wmu

hubVars == <<rooms, byConn, th, unreg, closed, closeFrame, got, roomFull,
             assigned, okSeqs, ackFloor, sig, sent>>
objVars == <<fs, rq, now, created, okCommit, okBlobs, crashed>>
taskVars == <<ping, mu, wmu>>
vars == <<hubVars, objVars, taskVars>>

\* ------------------------------------------------------------- data model
newMailbox == [nextSeq |-> 0, deliveredUpTo |-> 0, queue |-> <<>>]

\* &room{conns: {}, mboxes: {"A": {}, "B": {}}, lastActivity: time.Now()}
\* idle is time.Now() - lastActivity in ticks, saturating above roomTTL.
\* vacant counts the ticks of gcLoop since the last connection left, also
\* saturating: it is kept for the properties, the code has no such field.
newRoom == [conns  |-> <<>>,
            mboxes |-> [s \in Sides |-> newMailbox],
            idle   |-> 0,
            vacant |-> 0]

touch(r) == [r EXCEPT !.idle = 0]

MapDelete(m, k) == [x \in DOMAIN m \ {k} |-> m[x]]
MapPut(m, k, v) == [x \in DOMAIN m \cup {k} |-> IF x = k THEN v ELSE m[x]]

Max(a, b) == IF a >= b THEN a ELSE b
MaxOf(S)  == IF S = {} THEN 0 ELSE CHOOSE x \in S : \A y \in S : y <= x

idleThread == [pc |-> "new", side |-> "-", caller |-> "-", pside |-> "-",
               cur |-> NoConn, frames |-> <<>>, snapAck |-> 0, targets |-> {},
               regAck |-> 0, msg |-> 0]

\* The ping goroutine of a handler: pc is "none" before it runs, "tick"
\* while it waits for its ticker, "write" between the check of WritePingConn
\* and its write, "done" when it has returned; wrap is the connection the
\* call found registered, err the error its last call returned, wrote the
\* sockets it has written a ping to.
idlePing == [pc |-> "none", wrap |-> NoConn, err |-> "", wrote |-> {}]

\* the handler goroutine back in its read loop
reading(t) == [t EXCEPT !.pc = "read", !.caller = "-", !.pside = "-",
               !.cur = NoConn, !.frames = <<>>, !.snapAck = 0, !.targets = {},
               !.msg = 0]

\* --------------------------------------------------------------- trimQueue
RECURSIVE trimIndex(_, _, _)
trimIndex(q, upTo, i) ==
    IF i < Len(q) /\ q[i + 1].seq <= upTo THEN trimIndex(q, upTo, i + 1) ELSE i

trimQueue(mb) ==
    LET i == trimIndex(mb.queue, mb.deliveredUpTo, 0)
    IN  IF i > 0 THEN [mb EXCEPT !.queue = SubSeq(mb.queue, i + 1, Len(mb.queue))]
        ELSE mb

\* advance without the comparison: the watermark is overwritten
advance_overwrite(mb, n) == trimQueue([mb EXCEPT !.deliveredUpTo = n])

\* if n > mb.deliveredUpTo { mb.deliveredUpTo = n; trimQueue(mb) }
advance(mb, n) ==
    IF n > mb.deliveredUpTo THEN trimQueue([mb EXCEPT !.deliveredUpTo = n]) ELSE mb

\* append that stamps every entry as sent by side A
append_fromA(mb, from, payload) ==
    LET seq == mb.nextSeq + 1
    IN  [mb EXCEPT !.nextSeq = seq,
                   !.queue = Append(mb.queue, [seq |-> seq, from |-> "A",
                                               payload |-> payload])]

\* append that numbers the entry by its place in the queue
append_byLength(mb, from, payload) ==
    LET seq == Len(mb.queue) + 1
    IN  [mb EXCEPT !.nextSeq = seq,
                   !.queue = Append(mb.queue, [seq |-> seq, from |-> from,
                                               payload |-> payload])]

\* seq := mb.nextSeq + 1; mb.nextSeq = seq; mb.queue = append(mb.queue, ...)
append(mb, from, payload) ==
    LET seq == mb.nextSeq + 1
    IN  [mb EXCEPT !.nextSeq = seq,
                   !.queue = Append(mb.queue, [seq |-> seq, from |-> from,
                                               payload |-> payload])]

\* --------------------------------------------- pushAllLocked, locked prefix
\* snapshot that collects the frames newest first
snapshot_newestFirst(mb) ==
    LET f == SelectSeq(mb.queue, LAMBDA q : q.seq > mb.deliveredUpTo)
    IN  [i \in 1..Len(f) |-> f[Len(f) + 1 - i]]

\* snapshot whose filter is off by one
snapshot_offByOne(mb) == SelectSeq(mb.queue, LAMBDA q : q.seq > mb.deliveredUpTo + 1)

\* snapshot without the watermark filter
snapshot_unfiltered(mb) == mb.queue

\* snapshot that stops after the first deliverable frame
snapshot_firstOnly(mb) ==
    LET f == SelectSeq(mb.queue, LAMBDA q : q.seq > mb.deliveredUpTo)
    IN  IF f = <<>> THEN f ELSE <<f[1]>>

\* snapshot that collects every deliverable frame twice
snapshot_repeated(mb) ==
    LET f == SelectSeq(mb.queue, LAMBDA q : q.seq > mb.deliveredUpTo)
    IN  f \o f

\* frames with seq > deliveredUpTo, in queue order
snapshot(mb) == SelectSeq(mb.queue, LAMBDA q : q.seq > mb.deliveredUpTo)

\* the frames pushAllLocked decides to send for `side` (<<>>: it returns early)
pushFrames(r, side) ==
    IF r = NoRoom THEN <<>>
    ELSE IF side \notin DOMAIN r.conns THEN <<>>
    ELSE IF Len(r.mboxes[side].queue) = 0 THEN <<>>
    ELSE snapshot(r.mboxes[side])

\* the goroutine state on entering the unlocked loop of pushAllLocked
pushing(t, caller, r, side, frames) ==
    [t EXCEPT !.pc = "pushCheck", !.caller = caller, !.pside = side,
              !.cur = r.conns[side], !.frames = frames,
              !.snapAck = ackFloor[side]]

\* ---------------------------------------------------------------- Unregister
\* Unregister that leaves the socket in byConn
unregisterByConn_keep(bc, c) == bc

\* delete(h.byConn, conn)
unregisterByConn(bc, c) == MapDelete(bc, c)

\* Unregister that removes whatever socket holds the caller's side
unregisterRooms_bySide(rm, bc, c) ==
    LET s == th[c].side
    IN  IF rm[AppID] # NoRoom /\ s \in DOMAIN rm[AppID].conns
        THEN [rm EXCEPT ![AppID].conns = MapDelete(@, s)]
        ELSE rm

\* Unregister that empties the room's conns
unregisterRooms_allSides(rm, bc, c) ==
    IF c \notin DOMAIN bc \/ rm[bc[c].appID] = NoRoom THEN rm
    ELSE [rm EXCEPT ![bc[c].appID].conns = <<>>]

unregisterRooms(rm, bc, c) ==
    IF c \notin DOMAIN bc THEN rm
    ELSE LET key == bc[c]
             r   == rm[key.appID]
         IN  IF /\ r # NoRoom
                /\ key.side \in DOMAIN r.conns
                /\ r.conns[key.side] = c
             THEN [rm EXCEPT ![key.appID].conns = MapDelete(r.conns, key.side)]
             ELSE rm

\* h.rooms[appID] != nil
live == rooms[AppID] # NoRoom

\* RoomSize(appID)
RoomSize(a) == IF rooms[a] = NoRoom THEN 0 ELSE Cardinality(DOMAIN rooms[a].conns)

\* the highest seq side s has actually been sent
received(s) == MaxOf(UNION {got[c] : c \in {d \in Conns : th[d].side = s}})

Init ==
    /\ rooms = [a \in AppIDs |-> NoRoom]
    /\ byConn = <<>>
    /\ th = [c \in Conns |-> idleThread]
    /\ unreg = {}
    /\ closed = [c \in Conns |-> FALSE]
    /\ closeFrame = [c \in Conns |-> <<>>]
    /\ got = [c \in Conns |-> {}]
    /\ roomFull = [c \in Conns |-> 0]
    /\ assigned = [s \in Sides |-> <<>>]
    /\ okSeqs = [s \in Sides |-> {}]
    /\ ackFloor = [s \in Sides |-> 0]
    /\ sig = [c \in Conns |-> <<>>]
    /\ sent = <<>>
    /\ fs = noObject
    /\ rq = [w \in Workers |-> idleRequest]
    /\ now = 0
    /\ created = "no"
    /\ okCommit = FALSE
    /\ okBlobs = {}
    /\ crashed = <<>>
    /\ ping = [c \in Conns |-> idlePing]
    /\ mu = NoConn
    /\ wmu = [c \in Conns |-> NoConn]

\* ------------------------------------------------------------------ Register
\* r.conns[side] before the call, NoConn if the side is offline
oldConn(r, s) == IF s \in DOMAIN r.conns THEN r.conns[s] ELSE NoConn

\* r.conns[side] = wrap; h.touch(r)
registerRoom(r, s, c) ==
    touch([r EXCEPT !.conns = MapPut(r.conns, s, c), !.vacant = 0])

\* registerByConn that leaves the displaced socket in byConn
registerByConn_keepOld(bc, old, s, c) ==
    MapPut(bc, c, [appID |-> AppID, side |-> s])

\* delete(h.byConn, old.ws); h.byConn[conn] = byConnKey{appID, side}
registerByConn(bc, old, s, c) ==
    MapPut(MapDelete(bc, old), c, [appID |-> AppID, side |-> s])

\* old.ws.WriteMessage(CloseMessage, FormatCloseMessage(1000, "replaced"))
evictFrame(cf, old) ==
    IF old = NoConn THEN cf ELSE [cf EXCEPT ![old] = <<1000, "replaced">>]

\* old.ws.Close()
evictClose(cl, old) == IF old = NoConn THEN cl ELSE [cl EXCEPT ![old] = TRUE]

\* The upgrade of socket c as side s, then Hub.Register up to the point where
\* pushAllLocked returns early or releases the lock.
Register(c, s) ==
    LET r0     == IF rooms[AppID] = NoRoom THEN newRoom ELSE rooms[AppID]
        old    == oldConn(r0, s)
        r1     == registerRoom(r0, s, c)
        frames == pushFrames(r1, s)
        \* regAck: the side's watermark when the socket registered
        t1     == [th[c] EXCEPT !.side = s,
                                !.regAck = r0.mboxes[s].deliveredUpTo]
    IN  /\ th[c].pc = "new"
        /\ \A d \in Conns : d < c => th[d].pc # "new"
        /\ rooms' = [rooms EXCEPT ![AppID] = r1]
        /\ byConn' = registerByConn(byConn, old, s, c)
        /\ closeFrame' = evictFrame(closeFrame, old)
        /\ closed' = evictClose(closed, old)
        /\ th' = [th EXCEPT ![c] =
                    IF frames = <<>> THEN [t1 EXCEPT !.pc = "roomSize"]
                    ELSE pushing(t1, "Register", r1, s, frames)]
        /\ UNCHANGED <<unreg, got, roomFull, assigned, okSeqs,
                       ackFloor, sig, sent, objVars, taskVars>>

\* ------------------------------------------- Register, lock by lock
\* The same call at the grain of its mutexes: mu is held from RegisterLock
\* to RegisterInsert, the wmu of the old connection from RegisterEvictLock
\* to RegisterEvict. Every other critical section of the Hub is one step
\* and waits until mu is free.
\* h.mu.Lock(); r := h.rooms[appID]; if r == nil { h.rooms[appID] = &room{} }
RegisterLock(c, s) ==
    /\ th[c].pc = "new"
    /\ mu = NoConn
    /\ mu' = c
    /\ rooms' = IF rooms[AppID] = NoRoom THEN [rooms EXCEPT ![AppID] = newRoom]
                ELSE rooms
    /\ th' = [th EXCEPT ![c].pc = "regLocked", ![c].side = s]
    /\ UNCHANGED <<byConn, unreg, closed, closeFrame, got, roomFull, assigned,
                   okSeqs, ackFloor, sig, sent, objVars, ping, wmu>>

\* if old := r.conns[side]; old != nil { old.wmu.Lock()
RegisterEvictLock(c) ==
    LET old == oldConn(rooms[AppID], th[c].side)
    IN  /\ th[c].pc = "regLocked"
        /\ old # NoConn
        /\ wmu[old] = NoConn
        /\ wmu' = [wmu EXCEPT ![old] = c]
        /\ th' = [th EXCEPT ![c].pc = "regEvict"]
        /\ UNCHANGED <<rooms, byConn, unreg, closed, closeFrame, got, roomFull,
                       assigned, okSeqs, ackFloor, sig, sent, objVars, ping, mu>>

\* old.ws.WriteMessage(CloseMessage, ...); old.wmu.Unlock(); old.ws.Close();
\* delete(h.byConn, old.ws) }
RegisterEvict(c) ==
    LET old == oldConn(rooms[AppID], th[c].side)
    IN  /\ th[c].pc = "regEvict"
        /\ closeFrame' = evictFrame(closeFrame, old)
        /\ wmu' = [wmu EXCEPT ![old] = NoConn]
        /\ closed' = evictClose(closed, old)
        /\ byConn' = MapDelete(byConn, old)
        /\ th' = [th EXCEPT ![c].pc = "regInsert"]
        /\ UNCHANGED <<rooms, unreg, got, roomFull, assigned, okSeqs,
                       ackFloor, sig, sent, objVars, ping, mu>>

\* r.conns[side] = wrap; h.byConn[conn] = key; h.touch(r);
\* h.pushAllLocked(appID, side) up to its early return or its h.mu.Unlock()
RegisterInsert(c) ==
    LET r0     == rooms[AppID]
        s      == th[c].side
        r1     == registerRoom(r0, s, c)
        frames == pushFrames(r1, s)
        t1     == [th[c] EXCEPT !.regAck = r0.mboxes[s].deliveredUpTo]
    IN  /\ \/ th[c].pc = "regInsert"
           \/ th[c].pc = "regLocked" /\ oldConn(r0, s) = NoConn
        /\ rooms' = [rooms EXCEPT ![AppID] = r1]
        /\ byConn' = MapPut(byConn, c, [appID |-> AppID, side |-> s])
        /\ mu' = NoConn
        /\ th' = [th EXCEPT ![c] =
                    IF frames = <<>> THEN [t1 EXCEPT !.pc = "roomSize"]
                    ELSE pushing(t1, "Register", r1, s, frames)]
        /\ UNCHANGED <<unreg, closed, closeFrame, got, roomFull, assigned,
                       okSeqs, ackFloor, sig, sent, objVars, ping, wmu>>

\* ------------------------------------------------------ the upgrade request
\* the appID and side query parameters a request may carry
RequestAppIDs == AppIDs \cup {"not-a-uuid"}
RequestSides  == Sides \cup {"C", ""}

\* uuid.Parse(appID) returns an error: the ids of AppIDs are UUIDs
uuidParseErr(a) == a \notin AppIDs

\* the request is answered 400 after it has created the room
BadRequest_createsRoom(c, a, s) ==
    /\ th[c].pc = "new"
    /\ uuidParseErr(a) \/ (s # "A" /\ s # "B")
    /\ th' = [th EXCEPT ![c].pc = "400"]
    /\ rooms' = [rooms EXCEPT ![AppID] = IF @ = NoRoom THEN newRoom ELSE touch(@)]
    /\ UNCHANGED <<byConn, unreg, closed, closeFrame, got, roomFull,
                   assigned, okSeqs, ackFloor, sig, sent, objVars, taskVars>>

\* http.Error(w, "invalid appID" | "invalid side (want A or B)", 400); return
BadRequest(c, a, s) ==
    /\ th[c].pc = "new"
    /\ uuidParseErr(a) \/ (s # "A" /\ s # "B")
    /\ th' = [th EXCEPT ![c].pc = "400"]
    /\ UNCHANGED <<rooms, byConn, unreg, closed, closeFrame, got, roomFull,
                   assigned, okSeqs, ackFloor, sig, sent, objVars, taskVars>>

\* The handler of GET /ws?appID=a&side=s, request number c: the validation
\* of the two parameters, then the upgrade and Hub.Register.
Upgrade(c, a, s) ==
    IF uuidParseErr(a) \/ (s # "A" /\ s # "B")
    THEN BadRequest(c, a, s)
    ELSE Register(c, s)

\* --------------------------------------------------------------------- Hello
\* The read loop got {"type":"hello","deliveredUpTo":d} on socket c.
Hello(c, d) ==
    LET s == th[c].side
        r == rooms[AppID]
    IN  /\ th[c].pc = "read"
        /\ ~closed[c]
        /\ IF r = NoRoom THEN UNCHANGED <<rooms, th>>
           ELSE LET r1     == [r EXCEPT !.mboxes[s] = advance(@, d)]
                    frames == pushFrames(r1, s)
                IN  IF frames = <<>>
                    THEN /\ rooms' = [rooms EXCEPT ![AppID] = touch(r1)]
                         /\ UNCHANGED th
                    ELSE /\ rooms' = [rooms EXCEPT ![AppID] = r1]
                         /\ th' = [th EXCEPT ![c] =
                                     pushing(th[c], "Hello", r1, s, frames)]
        /\ UNCHANGED <<byConn, unreg, closed, closeFrame, got,
                       roomFull, assigned, okSeqs, ackFloor, sig, sent, objVars, taskVars>>

\* ------------------------------------------------------------------- Enqueue
\* to != "A" && to != "B": the error return before the lock is taken
EnqueueInvalid(c, to) ==
    /\ th[c].pc = "read"
    /\ ~closed[c]
    /\ to \notin Sides
    /\ UNCHANGED <<th, rooms, byConn, unreg, closed, closeFrame, got,
                   roomFull, assigned, okSeqs, ackFloor, sig, sent, objVars, taskVars>>

\* Enqueue that drops the new entry when the queue is over the cap
Enqueue_rejectOverflow(c, to, p) ==
    LET r0   == IF rooms[AppID] = NoRoom THEN newRoom ELSE rooms[AppID]
        mb1  == append(r0.mboxes[to], th[c].side, p)
        r1   == [r0 EXCEPT !.mboxes[to] = mb1]
        over == Len(mb1.queue) > maxMailboxQueued
        frames == pushFrames(r1, to)
    IN  /\ th[c].pc = "read"
        /\ ~closed[c]
        /\ to \in Sides
        /\ assigned' = [assigned EXCEPT ![to] = Append(@, mb1.nextSeq)]
        /\ okSeqs' = IF over THEN okSeqs
                     ELSE [okSeqs EXCEPT ![to] = @ \cup {mb1.nextSeq}]
        /\ IF over
           THEN /\ rooms' = [rooms EXCEPT ![AppID] =
                                [r0 EXCEPT !.mboxes[to].nextSeq = mb1.nextSeq]]
                /\ UNCHANGED th
           ELSE IF frames = <<>>
           THEN /\ rooms' = [rooms EXCEPT ![AppID] = touch(r1)]
                /\ UNCHANGED th
           ELSE /\ rooms' = [rooms EXCEPT ![AppID] = r1]
                /\ th' = [th EXCEPT ![c] =
                            pushing(th[c], "Enqueue", r1, to, frames)]
        /\ UNCHANGED <<byConn, unreg, closed, closeFrame, got,
                       roomFull, ackFloor, sig, sent, objVars, taskVars>>

\* The read loop got {"type":"send","to":to,"payload":p} on socket c.
Enqueue(c, to, p) ==
    LET r0   == IF rooms[AppID] = NoRoom THEN newRoom ELSE rooms[AppID]
        mb1  == append(r0.mboxes[to], th[c].side, p)
        r1   == [r0 EXCEPT !.mboxes[to] = mb1]
        over == Len(mb1.queue) > maxMailboxQueued
        frames == pushFrames(r1, to)
    IN  /\ th[c].pc = "read"
        /\ ~closed[c]
        /\ to \in Sides
        /\ assigned' = [assigned EXCEPT ![to] = Append(@, mb1.nextSeq)]
        /\ okSeqs' = IF over THEN okSeqs
                     ELSE [okSeqs EXCEPT ![to] = @ \cup {mb1.nextSeq}]
        /\ IF over
           THEN /\ rooms' = [rooms EXCEPT ![AppID] = r1]
                /\ UNCHANGED th
           ELSE IF frames = <<>>
           THEN /\ rooms' = [rooms EXCEPT ![AppID] = touch(r1)]
                /\ UNCHANGED th
           ELSE /\ rooms' = [rooms EXCEPT ![AppID] = r1]
                /\ th' = [th EXCEPT ![c] =
                            pushing(th[c], "Enqueue", r1, to, frames)]
        /\ UNCHANGED <<byConn, unreg, closed, closeFrame, got,
                       roomFull, ackFloor, sig, sent, objVars, taskVars>>

\* ------------------------------------------------------------------- AckUpTo
\* The read loop got {"type":"delivered","upTo":n} on socket c.
AckUpTo(c, n) ==
    LET s == th[c].side
        r == rooms[AppID]
    IN  /\ th[c].pc = "read"
        /\ ~closed[c]
        /\ IF r = NoRoom THEN UNCHANGED <<rooms, ackFloor>>
           ELSE LET mb1 == advance(r.mboxes[s], n)
                IN  /\ rooms' = [rooms EXCEPT
                                   ![AppID] = touch([r EXCEPT !.mboxes[s] = mb1])]
                    /\ ackFloor' = [ackFloor EXCEPT ![s] = mb1.deliveredUpTo]
        /\ UNCHANGED <<byConn, th, unreg, closed, closeFrame, got,
                       roomFull, assigned, okSeqs, sig, sent, objVars, taskVars>>

\* ------------------------------------- hello and delivered, read then call
\* The same two frames with the read of the frame and the call of the Hub
\* as two steps: between them the socket may be closed and unregistered and
\* the room collected.
\* conn.ReadMessage() returned {"type":"hello","deliveredUpTo":d}
HelloRead(c, d) ==
    /\ th[c].pc = "read"
    /\ ~closed[c]
    /\ th' = [th EXCEPT ![c].pc = "hello", ![c].msg = d]
    /\ UNCHANGED <<rooms, byConn, unreg, closed, closeFrame, got, roomFull,
                   assigned, okSeqs, ackFloor, sig, sent, objVars, taskVars>>

\* h.Hello(appID, side, sessionID, m.DeliveredUpTo)
HelloCall(c) ==
    LET s == th[c].side
        d == th[c].msg
        r == rooms[AppID]
    IN  /\ th[c].pc = "hello"
        /\ IF r = NoRoom
           THEN /\ th' = [th EXCEPT ![c] = reading(th[c])]
                /\ UNCHANGED rooms
           ELSE LET r1     == [r EXCEPT !.mboxes[s] = advance(@, d)]
                    frames == pushFrames(r1, s)
                IN  IF frames = <<>>
                    THEN /\ rooms' = [rooms EXCEPT ![AppID] = touch(r1)]
                         /\ th' = [th EXCEPT ![c] = reading(th[c])]
                    ELSE /\ rooms' = [rooms EXCEPT ![AppID] = r1]
                         /\ th' = [th EXCEPT ![c] =
                                     pushing(th[c], "Hello", r1, s, frames)]
        /\ UNCHANGED <<byConn, unreg, closed, closeFrame, got,
                       roomFull, assigned, okSeqs, ackFloor, sig, sent, objVars, taskVars>>

\* conn.ReadMessage() returned {"type":"delivered","upTo":n}
AckRead(c, n) ==
    /\ th[c].pc = "read"
    /\ ~closed[c]
    /\ th' = [th EXCEPT ![c].pc = "delivered", ![c].msg = n]
    /\ UNCHANGED <<rooms, byConn, unreg, closed, closeFrame, got, roomFull,
                   assigned, okSeqs, ackFloor, sig, sent, objVars, taskVars>>

\* AckUpTo that touches the room only when the watermark advances
AckCall_touchOnAdvance(c) ==
    LET s == th[c].side
        n == th[c].msg
        r == rooms[AppID]
    IN  /\ th[c].pc = "delivered"
        /\ th' = [th EXCEPT ![c] = reading(th[c])]
        /\ IF r = NoRoom THEN UNCHANGED <<rooms, ackFloor>>
           ELSE LET mb1 == advance(r.mboxes[s], n)
                    r1  == [r EXCEPT !.mboxes[s] = mb1]
                IN  /\ rooms' = [rooms EXCEPT ![AppID] =
                                    IF n > r.mboxes[s].deliveredUpTo
                                    THEN touch(r1) ELSE r1]
                    /\ ackFloor' = [ackFloor EXCEPT ![s] = mb1.deliveredUpTo]
        /\ UNCHANGED <<byConn, unreg, closed, closeFrame, got,
                       roomFull, assigned, okSeqs, sig, sent, objVars, taskVars>>

\* h.AckUpTo(appID, side, m.UpTo)
AckCall(c) ==
    LET s == th[c].side
        n == th[c].msg
        r == rooms[AppID]
    IN  /\ th[c].pc = "delivered"
        /\ th' = [th EXCEPT ![c] = reading(th[c])]
        /\ IF r = NoRoom THEN UNCHANGED <<rooms, ackFloor>>
           ELSE LET mb1 == advance(r.mboxes[s], n)
                IN  /\ rooms' = [rooms EXCEPT
                                   ![AppID] = touch([r EXCEPT !.mboxes[s] = mb1])]
                    /\ ackFloor' = [ackFloor EXCEPT ![s] = mb1.deliveredUpTo]
        /\ UNCHANGED <<byConn, unreg, closed, closeFrame, got,
                       roomFull, assigned, okSeqs, sig, sent, objVars, taskVars>>

\* ------------------------------------------- pushAllLocked, unlocked loop
\* the check of the loop without the comparison with cur
same_roomOnly(t) ==
    /\ rooms[AppID] # NoRoom
    /\ t.pside \in DOMAIN rooms[AppID].conns

\* h.mu.Lock(); same := r2 != nil && r2.conns[side] == cur; h.mu.Unlock()
same(t) ==
    /\ rooms[AppID] # NoRoom
    /\ t.pside \in DOMAIN rooms[AppID].conns
    /\ rooms[AppID].conns[t.pside] = t.cur

PushCheck(c) ==
    /\ th[c].pc = "pushCheck"
    /\ th' = [th EXCEPT ![c].pc = IF same(th[c]) THEN "pushWrite" ELSE "pushEnd"]
    /\ UNCHANGED <<rooms, byConn, unreg, closed, closeFrame, got,
                   roomFull, assigned, okSeqs, ackFloor, sig, sent, objVars, taskVars>>

\* cur.ws.WriteJSON(env) succeeded
PushWriteOk(c) ==
    LET t   == th[c]
        env == Head(t.frames)
    IN  /\ t.pc = "pushWrite"
        /\ ~closed[t.cur]
        /\ got' = [got EXCEPT ![t.cur] = @ \cup {env.seq}]
        /\ th' = [th EXCEPT ![c].frames = Tail(t.frames),
                            ![c].pc = IF Len(t.frames) = 1 THEN "pushEnd"
                                      ELSE "pushCheck"]
        /\ UNCHANGED <<rooms, byConn, unreg, closed, closeFrame, roomFull,
                       assigned, okSeqs, ackFloor, sig, sent, objVars, taskVars>>

\* a failed write that closes the socket and schedules no Unregister
PushWriteFail_noUnregister(c) ==
    LET t == th[c]
    IN  /\ t.pc = "pushWrite"
        /\ closed' = [closed EXCEPT ![t.cur] = TRUE]
        /\ th' = [th EXCEPT ![c].pc = "pushEnd"]
        /\ UNCHANGED <<rooms, byConn, unreg, closeFrame, got, roomFull,
                       assigned, okSeqs, ackFloor, sig, sent, objVars, taskVars>>

\* cur.ws.WriteJSON(env) failed: cur.ws.Close(); go h.Unregister(...); break
PushWriteFail(c) ==
    LET t == th[c]
    IN  /\ t.pc = "pushWrite"
        /\ closed' = [closed EXCEPT ![t.cur] = TRUE]
        /\ unreg' = unreg \cup {t.cur}
        /\ th' = [th EXCEPT ![c].pc = "pushEnd"]
        /\ UNCHANGED <<rooms, byConn, closeFrame, got, roomFull,
                       assigned, okSeqs, ackFloor, sig, sent, objVars, taskVars>>

\* h.mu.Lock(); touch; return to the caller, which returns to the handler
PushEnd(c) ==
    LET t == th[c]
    IN  /\ t.pc = "pushEnd"
        /\ rooms' = IF rooms[AppID] = NoRoom THEN rooms
                    ELSE [rooms EXCEPT ![AppID] = touch(@)]
        /\ th' = [th EXCEPT ![c] =
                    IF t.caller = "Register" THEN [reading(t) EXCEPT !.pc = "roomSize"]
                    ELSE reading(t)]
        /\ UNCHANGED <<byConn, unreg, closed, closeFrame, got,
                       roomFull, assigned, okSeqs, ackFloor, sig, sent, objVars, taskVars>>

\* the spawned goroutine of `go h.Unregister(appID, cur.ws)`
AsyncUnregister(c) ==
    /\ c \in unreg
    /\ unreg' = unreg \ {c}
    /\ rooms' = unregisterRooms(rooms, byConn, c)
    /\ byConn' = unregisterByConn(byConn, c)
    /\ UNCHANGED <<th, closed, closeFrame, got, roomFull, assigned,
                   okSeqs, ackFloor, sig, sent, objVars, taskVars>>

\* ------------------------------------------------ handler: room_full event
\* if h.RoomSize(appID) == 2 { h.BroadcastEvent(...) }
RoomSizeCheck(c) ==
    /\ th[c].pc = "roomSize"
    /\ th' = [th EXCEPT ![c] = IF RoomSize(AppID) = 2
                               THEN [th[c] EXCEPT !.pc = "event"]
                               ELSE reading(th[c])]
    /\ UNCHANGED <<rooms, byConn, unreg, closed, closeFrame, got,
                   roomFull, assigned, okSeqs, ackFloor, sig, sent, objVars, taskVars>>

\* BroadcastEvent, locked part: collect r.conns
eventTargets(r) == IF r = NoRoom THEN {} ELSE {r.conns[s] : s \in DOMAIN r.conns}

BroadcastEvent(c) ==
    LET tg == eventTargets(rooms[AppID])
    IN  /\ th[c].pc = "event"
        /\ th' = [th EXCEPT ![c] = IF tg = {} THEN reading(th[c])
                                   ELSE [th[c] EXCEPT !.pc = "evtWrite",
                                                      !.targets = tg]]
        /\ UNCHANGED <<rooms, byConn, unreg, closed, closeFrame, got,
                       roomFull, assigned, okSeqs, ackFloor, sig, sent, objVars, taskVars>>

afterEvent(t, x) ==
    IF t.targets = {x} THEN reading(t) ELSE [t EXCEPT !.targets = @ \ {x}]

\* BroadcastEvent, one iteration of the write loop, write succeeded
EventWriteOk(c, x) ==
    /\ th[c].pc = "evtWrite"
    /\ x \in th[c].targets
    /\ ~closed[x]
    /\ roomFull' = [roomFull EXCEPT ![x] = @ + 1]
    /\ th' = [th EXCEPT ![c] = afterEvent(th[c], x)]
    /\ UNCHANGED <<rooms, byConn, unreg, closed, closeFrame, got,
                   assigned, okSeqs, ackFloor, sig, sent, objVars, taskVars>>

\* the write failed: c.ws.Close(); h.Unregister(appID, c.ws)
EventWriteFail(c, x) ==
    /\ th[c].pc = "evtWrite"
    /\ x \in th[c].targets
    /\ closed' = [closed EXCEPT ![x] = TRUE]
    /\ rooms' = unregisterRooms(rooms, byConn, x)
    /\ byConn' = unregisterByConn(byConn, x)
    /\ th' = [th EXCEPT ![c] = afterEvent(th[c], x)]
    /\ UNCHANGED <<unreg, closeFrame, got, roomFull, assigned,
                   okSeqs, ackFloor, sig, sent, objVars, taskVars>>

\* ------------------------------------------------------- handler: teardown
\* ReadMessage returned an error: the deferred h.Unregister(appID, conn) and
\* conn.Close() run and the handler returns.
ReadError(c) ==
    /\ th[c].pc = "read"
    /\ rooms' = unregisterRooms(rooms, byConn, c)
    /\ byConn' = unregisterByConn(byConn, c)
    /\ closed' = [closed EXCEPT ![c] = TRUE]
    /\ th' = [th EXCEPT ![c].pc = "done"]
    /\ UNCHANGED <<unreg, closeFrame, got, roomFull, assigned,
                   okSeqs, ackFloor, sig, sent, objVars, taskVars>>

\* The same teardown step by step, as the deferred calls run: first
\* h.Unregister(appID, conn) ...
ReadErrorUnregister(c) ==
    /\ th[c].pc = "read"
    /\ rooms' = unregisterRooms(rooms, byConn, c)
    /\ byConn' = unregisterByConn(byConn, c)
    /\ th' = [th EXCEPT ![c].pc = "unregistered"]
    /\ UNCHANGED <<unreg, closed, closeFrame, got, roomFull, assigned,
                   okSeqs, ackFloor, sig, sent, objVars, taskVars>>

\* ... then conn.Close()
ReadErrorClose(c) ==
    /\ th[c].pc = "unregistered"
    /\ closed' = [closed EXCEPT ![c] = TRUE]
    /\ th' = [th EXCEPT ![c].pc = "done"]
    /\ UNCHANGED <<rooms, byConn, unreg, closeFrame, got, roomFull, assigned,
                   okSeqs, ackFloor, sig, sent, objVars, taskVars>>

\* ----------------------------------------------------- handler: ping task
\* the handler of socket c has passed its `go func() { ... }` statement
spawned(c) ==
    \/ th[c].pc \in {"read", "signal", "sigWrite", "sigIO", "sigUnreg",
                     "unregistered", "done"}
    \/ /\ th[c].pc \in {"pushCheck", "pushWrite", "pushIO", "pushEnd", "pushReturn"}
       /\ th[c].caller # "Register"

\* WritePingConn that pings whatever connection holds the side of conn
pingWrap_bySide(c) ==
    IF rooms[AppID] = NoRoom THEN NoConn
    ELSE IF th[c].side \notin DOMAIN rooms[AppID].conns THEN NoConn
    ELSE rooms[AppID].conns[th[c].side]

\* WritePingConn, under h.mu: the connection the call will ping, NoConn if
\* it returns "connection not registered", "room not found" or
\* "connection replaced"
pingWrap(c) ==
    IF c \notin DOMAIN byConn THEN NoConn
    ELSE IF rooms[AppID] = NoRoom THEN NoConn
    ELSE IF byConn[c].side \notin DOMAIN rooms[AppID].conns THEN NoConn
    ELSE IF rooms[AppID].conns[byConn[c].side] # c THEN NoConn
    ELSE rooms[AppID].conns[byConn[c].side]

\* the error WritePingConn returns from its check, "" if it goes on to write
pingErr(c) ==
    IF c \notin DOMAIN byConn THEN "connection not registered"
    ELSE IF rooms[AppID] = NoRoom THEN "room not found"
    ELSE IF byConn[c].side \notin DOMAIN rooms[AppID].conns THEN "connection replaced"
    ELSE IF rooms[AppID].conns[byConn[c].side] # c THEN "connection replaced"
    ELSE ""

\* the goroutine starts: ticker := time.NewTicker(pingPeriod)
PingStart(c) ==
    /\ spawned(c)
    /\ ping[c].pc = "none"
    /\ ping' = [ping EXCEPT ![c].pc = "tick"]
    /\ UNCHANGED <<hubVars, objVars, mu, wmu>>

\* a ping task that keeps its ticker running after a failed check
PingCheck_keepsTicking(c) ==
    LET wrap == pingWrap(c)
    IN  /\ ping[c].pc = "tick"
        /\ IF wrap = NoConn
           THEN /\ ping' = [ping EXCEPT ![c].err = pingErr(c)]
                /\ closed' = [closed EXCEPT ![c] = TRUE]
           ELSE /\ ping' = [ping EXCEPT ![c].pc = "write", ![c].wrap = wrap]
                /\ UNCHANGED closed
        /\ UNCHANGED <<rooms, byConn, th, unreg, closeFrame, got, roomFull,
                       assigned, okSeqs, ackFloor, sig, sent, objVars, mu, wmu>>

\* The ticker fires and WritePingConn runs its check under h.mu; on an error
\* the task does conn.Close() and returns.
PingCheck(c) ==
    LET wrap == pingWrap(c)
    IN  /\ ping[c].pc = "tick"
        /\ IF wrap = NoConn
           THEN /\ ping' = [ping EXCEPT ![c].pc = "done", ![c].err = pingErr(c)]
                /\ closed' = [closed EXCEPT ![c] = TRUE]
           ELSE /\ ping' = [ping EXCEPT ![c].pc = "write", ![c].wrap = wrap]
                /\ UNCHANGED closed
        /\ UNCHANGED <<rooms, byConn, th, unreg, closeFrame, got, roomFull,
                       assigned, okSeqs, ackFloor, sig, sent, objVars, mu, wmu>>

\* wrap.wmu.Lock(); wrap.ws.WriteMessage(PingMessage, nil) succeeded
PingWriteOk(c) ==
    /\ ping[c].pc = "write"
    /\ ~closed[ping[c].wrap]
    /\ ping' = [ping EXCEPT ![c] = [pc |-> "tick", wrap |-> NoConn, err |-> "",
                                    wrote |-> @.wrote \cup {@.wrap}]]
    /\ UNCHANGED <<hubVars, objVars, mu, wmu>>

\* the write failed: WritePingConn returns the error, conn.Close(), return
PingWriteFail(c) ==
    /\ ping[c].pc = "write"
    /\ ping' = [ping EXCEPT ![c] = [@ EXCEPT !.pc = "done", !.wrap = NoConn,
                                             !.err = "write"]]
    /\ closed' = [closed EXCEPT ![c] = TRUE]
    /\ UNCHANGED <<rooms, byConn, th, unreg, closeFrame, got, roomFull,
                   assigned, okSeqs, ackFloor, sig, sent, objVars, mu, wmu>>

\* the steps of the ping task of socket c
PingTask(c) == PingStart(c) \/ PingCheck(c) \/ PingWriteOk(c) \/ PingWriteFail(c)

\* ----------------------------------------------------- signaling: Broadcast
\* The read loop got an offer/answer/ice frame on socket c; the frame is the
\* next one of the run and is numbered so.
SignalRead(c) ==
    /\ th[c].pc = "read"
    /\ ~closed[c]
    /\ sent' = Append(sent, c)
    /\ th' = [th EXCEPT ![c].pc = "signal", ![c].msg = Len(sent) + 1]
    /\ UNCHANGED <<rooms, byConn, unreg, closed, closeFrame, got, roomFull,
                   assigned, okSeqs, ackFloor, sig, objVars, taskVars>>

\* key := h.byConn[sender]: the zero value when sender is not registered
keySide(bc, c) == IF c \in DOMAIN bc THEN bc[c].side ELSE ""

\* Broadcast that does not leave out the sender
broadcastTargets_withSender(r, bc, c) ==
    IF r = NoRoom THEN {}
    ELSE {r.conns[s] : s \in DOMAIN r.conns}

\* c != nil && c.ws != sender && (key.side == "" || side != key.side)
broadcastTargets(r, bc, c) ==
    IF r = NoRoom THEN {}
    ELSE {r.conns[s] : s \in {x \in DOMAIN r.conns :
                                  /\ r.conns[x] # c
                                  /\ (keySide(bc, c) = "" \/ x # keySide(bc, c))}}

\* Broadcast, locked part: collect the targets
Broadcast(c) ==
    LET tg == broadcastTargets(rooms[AppID], byConn, c)
    IN  /\ th[c].pc = "signal"
        /\ th' = [th EXCEPT ![c] = IF tg = {} THEN reading(th[c])
                                   ELSE [th[c] EXCEPT !.pc = "sigWrite",
                                                      !.targets = tg]]
        /\ UNCHANGED <<rooms, byConn, unreg, closed, closeFrame, got,
                       roomFull, assigned, okSeqs, ackFloor, sig, sent, objVars, taskVars>>

\* Broadcast, one iteration of the write loop, write succeeded
SignalWriteOk(c, x) ==
    /\ th[c].pc = "sigWrite"
    /\ x \in th[c].targets
    /\ ~closed[x]
    /\ sig' = [sig EXCEPT ![x] = Append(@, th[c].msg)]
    /\ th' = [th EXCEPT ![c] = afterEvent(th[c], x)]
    /\ UNCHANGED <<rooms, byConn, unreg, closed, closeFrame, got,
                   roomFull, assigned, okSeqs, ackFloor, sent, objVars, taskVars>>

\* the write failed: c.ws.Close(); h.Unregister(appID, c.ws)
SignalWriteFail(c, x) ==
    /\ th[c].pc = "sigWrite"
    /\ x \in th[c].targets
    /\ closed' = [closed EXCEPT ![x] = TRUE]
    /\ rooms' = unregisterRooms(rooms, byConn, x)
    /\ byConn' = unregisterByConn(byConn, x)
    /\ th' = [th EXCEPT ![c] = afterEvent(th[c], x)]
    /\ UNCHANGED <<unreg, closeFrame, got, roomFull, assigned,
                   okSeqs, ackFloor, sig, sent, objVars, taskVars>>

\* -------------------------------------------------------------------- gcLoop
\* one tick: time advances by gcInterval, then the scan under the lock
\* the condition without the test for connections
expired_ttlOnly(r) == r.idle > roomTTL

expired(r) == Cardinality(DOMAIN r.conns) = 0 /\ r.idle > roomTTL

gcLoop ==
    LET r  == rooms[AppID]
        r1 == [r EXCEPT !.idle = IF @ > roomTTL THEN @ ELSE @ + gcInterval,
                        !.vacant = IF DOMAIN r.conns # {} THEN 0
                                   ELSE IF @ > roomTTL THEN @ ELSE @ + gcInterval]
    IN  /\ r # NoRoom
        /\ IF expired(r1)
           THEN /\ rooms' = [rooms EXCEPT ![AppID] = NoRoom]
                /\ assigned' = [s \in Sides |-> <<>>]
                /\ okSeqs' = [s \in Sides |-> {}]
                /\ ackFloor' = [s \in Sides |-> 0]
           ELSE /\ rooms' = [rooms EXCEPT ![AppID] = r1]
                /\ UNCHANGED <<assigned, okSeqs, ackFloor>>
        /\ UNCHANGED <<byConn, th, unreg, closed, closeFrame, got,
                       roomFull, sig, sent, objVars, taskVars>>

\* ------------------------------------------------------------ specification
\* sockets are opened in the order of their numbers
fresh(c) == \A d \in Conns : d < c => th[d].pc # "new"

\* nextSeq of the mailbox of `to`, 0 when there is no room yet
nextSeqOf(to) ==
    IF to \notin Sides \/ rooms[AppID] = NoRoom THEN 0
    ELSE rooms[AppID].mboxes[to].nextSeq

\* Connection lifecycle with at most n sockets.
ConnSteps(n) ==
    \/ \E c \in 1..n, s \in Sides : fresh(c) /\ Register(c, s)
    \/ \E c \in Conns : RoomSizeCheck(c)
    \/ \E c \in Conns : BroadcastEvent(c)
    \/ \E c, x \in Conns : EventWriteOk(c, x)
    \/ \E c, x \in Conns : EventWriteFail(c, x)
    \/ \E c \in Conns : ReadError(c)
    \/ gcLoop

\* Mailbox traffic with at most cap messages; clients send watermarks 0..cap.
MsgSteps(cap) ==
    \/ \E c \in Conns, d \in Watermarks(cap) : Hello(c, d)
    \/ \E c \in Conns, to \in ToValues : EnqueueInvalid(c, to)
    \/ \E c \in Conns, to \in ToValues, p \in Payloads :
          nextSeqOf(to) < cap /\ Enqueue(c, to, p)
    \/ \E c \in Conns, m \in Watermarks(cap) : AckUpTo(c, m)
    \/ \E c \in Conns : PushCheck(c)
    \/ \E c \in Conns : PushWriteOk(c)
    \/ \E c \in Conns : PushWriteFail(c)
    \/ \E c \in Conns : PushEnd(c)
    \/ \E c \in Conns : AsyncUnregister(c)

\* Messaging: MsgConns sockets, MaxSeq messages.
Next == ConnSteps(MsgConns) \/ MsgSteps(MaxSeq)
Spec == Init /\ [][Next]_vars

\* Connection lifecycle: MaxConns sockets, no mailbox traffic.
RoomNext == ConnSteps(MaxConns)
RoomSpec == Init /\ [][RoomNext]_vars

\* Connection lifecycle with the upgrade requests that are refused.
UpgradeNext ==
    \/ \E c \in 1..MaxConns, a \in RequestAppIDs, s \in RequestSides :
          fresh(c) /\ Upgrade(c, a, s)
    \/ ConnSteps(MaxConns)
UpgradeSpec == Init /\ [][UpgradeNext]_vars

\* Connection lifecycle with the ping tasks of the handlers, the teardown
\* of a handler step by step.
PingNext ==
    \/ ConnSteps(MsgConns)
    \/ \E c \in Conns : ReadErrorUnregister(c)
    \/ \E c \in Conns : ReadErrorClose(c)
    \/ \E c \in Conns : PingTask(c)
PingSpec == Init /\ [][PingNext]_vars

\* the ticker of a running ping task keeps firing and its calls return
PingLiveSpec == PingSpec /\ \A c \in Conns : WF_vars(PingTask(c))

\* The Hub at the grain of its mutexes: Register lock by lock, every other
\* critical section in one step once h.mu is free, every write once the
\* wmu of its connection is free. MsgConns sockets, LiveMaxSeq messages.
LockNext ==
    \/ \E c \in 1..MsgConns, s \in Sides : fresh(c) /\ RegisterLock(c, s)
    \/ \E c \in Conns : RegisterEvictLock(c)
    \/ \E c \in Conns : RegisterEvict(c)
    \/ \E c \in Conns : RegisterInsert(c)
    \/ \E c \in Conns : mu = NoConn /\ RoomSizeCheck(c)
    \/ \E c \in Conns : mu = NoConn /\ BroadcastEvent(c)
    \/ \E c, x \in Conns : EventWriteOk(c, x) /\ wmu[x] = NoConn
    \/ \E c, x \in Conns : mu = NoConn /\ EventWriteFail(c, x) /\ wmu[x] = NoConn
    \/ \E c \in Conns : mu = NoConn /\ ReadError(c)
    \/ mu = NoConn /\ gcLoop
    \/ \E c \in Conns, d \in Watermarks(LiveMaxSeq) : mu = NoConn /\ Hello(c, d)
    \/ \E c \in Conns, to \in ToValues, p \in Payloads :
          mu = NoConn /\ nextSeqOf(to) < LiveMaxSeq /\ Enqueue(c, to, p)
    \/ \E c \in Conns, m \in Watermarks(LiveMaxSeq) : mu = NoConn /\ AckUpTo(c, m)
    \/ \E c \in Conns : mu = NoConn /\ PushCheck(c)
    \/ \E c \in Conns : PushWriteOk(c) /\ wmu[th[c].cur] = NoConn
    \/ \E c \in Conns : PushWriteFail(c) /\ wmu[th[c].cur] = NoConn
    \/ \E c \in Conns : mu = NoConn /\ PushEnd(c)
    \/ \E c \in Conns : mu = NoConn /\ AsyncUnregister(c)
LockSpec == Init /\ [][LockNext]_vars

\* ------------------------------------------- writes and push, lock by lock
\* The writers at the grain of their mutexes: a connWrap.wmu is held from
\* the Lock before a write to the Unlock after it, and pushAllLocked takes
\* h.mu again before it returns to a caller whose deferred Unlock follows.
\* wmu names its holder: the handler of socket c as c, its ping task as -c.
pingId(c) == 0 - c

\* pushAllLocked, loop: cur.wmu.Lock()
PushWmuLock(c) ==
    LET t == th[c]
    IN  /\ t.pc = "pushWrite"
        /\ wmu[t.cur] = NoConn
        /\ wmu' = [wmu EXCEPT ![t.cur] = c]
        /\ th' = [th EXCEPT ![c].pc = "pushIO"]
        /\ UNCHANGED <<rooms, byConn, unreg, closed, closeFrame, got, roomFull,
                       assigned, okSeqs, ackFloor, sig, sent, objVars, ping, mu>>

\* cur.ws.WriteJSON(env) succeeded; cur.wmu.Unlock()
PushIOOk(c) ==
    LET t   == th[c]
        env == Head(t.frames)
    IN  /\ t.pc = "pushIO"
        /\ ~closed[t.cur]
        /\ got' = [got EXCEPT ![t.cur] = @ \cup {env.seq}]
        /\ wmu' = [wmu EXCEPT ![t.cur] = NoConn]
        /\ th' = [th EXCEPT ![c].frames = Tail(t.frames),
                            ![c].pc = IF Len(t.frames) = 1 THEN "pushEnd"
                                      ELSE "pushCheck"]
        /\ UNCHANGED <<rooms, byConn, unreg, closed, closeFrame, roomFull,
                       assigned, okSeqs, ackFloor, sig, sent, objVars, ping, mu>>

\* cur.ws.WriteJSON(env) failed; cur.wmu.Unlock(); cur.ws.Close();
\* go h.Unregister(...); break
PushIOFail(c) ==
    LET t == th[c]
    IN  /\ t.pc = "pushIO"
        /\ wmu' = [wmu EXCEPT ![t.cur] = NoConn]
        /\ closed' = [closed EXCEPT ![t.cur] = TRUE]
        /\ unreg' = unreg \cup {t.cur}
        /\ th' = [th EXCEPT ![c].pc = "pushEnd"]
        /\ UNCHANGED <<rooms, byConn, closeFrame, got, roomFull, assigned,
                       okSeqs, ackFloor, sig, sent, objVars, ping, mu>>

\* a pushAllLocked that returns after its loop without taking h.mu again
PushRelock_noLock(c) ==
    /\ th[c].pc = "pushEnd"
    /\ rooms' = IF rooms[AppID] = NoRoom THEN rooms
                ELSE [rooms EXCEPT ![AppID] = touch(@)]
    /\ th' = [th EXCEPT ![c].pc = "pushReturn"]
    /\ UNCHANGED <<byConn, unreg, closed, closeFrame, got, roomFull, assigned,
                   okSeqs, ackFloor, sig, sent, objVars, ping, mu, wmu>>

\* pushAllLocked, after the loop: h.mu.Lock(); touch; return
PushRelock(c) ==
    /\ th[c].pc = "pushEnd"
    /\ mu = NoConn
    /\ mu' = c
    /\ rooms' = IF rooms[AppID] = NoRoom THEN rooms
                ELSE [rooms EXCEPT ![AppID] = touch(@)]
    /\ th' = [th EXCEPT ![c].pc = "pushReturn"]
    /\ UNCHANGED <<byConn, unreg, closed, closeFrame, got, roomFull, assigned,
                   okSeqs, ackFloor, sig, sent, objVars, ping, wmu>>

\* the caller returns and its deferred h.mu.Unlock() runs
PushReturn(c) ==
    LET t == th[c]
    IN  /\ t.pc = "pushReturn"
        /\ mu' = NoConn
        /\ th' = [th EXCEPT ![c] =
                    IF t.caller = "Register" THEN [reading(t) EXCEPT !.pc = "roomSize"]
                    ELSE reading(t)]
        /\ UNCHANGED <<rooms, byConn, unreg, closed, closeFrame, got, roomFull,
                       assigned, okSeqs, ackFloor, sig, sent, objVars, ping, wmu>>

\* BroadcastEvent, loop: c.wmu.Lock()
EventWmuLock(c, x) ==
    /\ th[c].pc = "evtWrite"
    /\ x \in th[c].targets
    /\ wmu[x] = NoConn
    /\ wmu' = [wmu EXCEPT ![x] = c]
    /\ th' = [th EXCEPT ![c].pc = "evtIO", ![c].cur = x]
    /\ UNCHANGED <<rooms, byConn, unreg, closed, closeFrame, got, roomFull,
                   assigned, okSeqs, ackFloor, sig, sent, objVars, ping, mu>>

\* the loop goes on with the targets left after x
afterWrite(t, loop) == afterEvent([t EXCEPT !.pc = loop, !.cur = NoConn], t.cur)

\* c.ws.WriteMessage(TextMessage, data) succeeded; c.wmu.Unlock()
EventIOOk(c) ==
    LET x == th[c].cur
    IN  /\ th[c].pc = "evtIO"
        /\ ~closed[x]
        /\ roomFull' = [roomFull EXCEPT ![x] = @ + 1]
        /\ wmu' = [wmu EXCEPT ![x] = NoConn]
        /\ th' = [th EXCEPT ![c] = afterWrite(th[c], "evtWrite")]
        /\ UNCHANGED <<rooms, byConn, unreg, closed, closeFrame, got, assigned,
                       okSeqs, ackFloor, sig, sent, objVars, ping, mu>>

\* the write failed; c.wmu.Unlock(); c.ws.Close()
EventIOFail(c) ==
    LET x == th[c].cur
    IN  /\ th[c].pc = "evtIO"
        /\ wmu' = [wmu EXCEPT ![x] = NoConn]
        /\ closed' = [closed EXCEPT ![x] = TRUE]
        /\ th' = [th EXCEPT ![c].pc = "evtUnreg"]
        /\ UNCHANGED <<rooms, byConn, unreg, closeFrame, got, roomFull, assigned,
                       okSeqs, ackFloor, sig, sent, objVars, ping, mu>>

\* h.Unregister(appID, c.ws) of the failed target, under h.mu
EventUnregister(c) ==
    LET x == th[c].cur
    IN  /\ th[c].pc = "evtUnreg"
        /\ rooms' = unregisterRooms(rooms, byConn, x)
        /\ byConn' = unregisterByConn(byConn, x)
        /\ th' = [th EXCEPT ![c] = afterWrite(th[c], "evtWrite")]
        /\ UNCHANGED <<unreg, closed, closeFrame, got, roomFull, assigned,
                       okSeqs, ackFloor, sig, sent, objVars, taskVars>>

\* WritePingConn: wrap.wmu.Lock(); defer wrap.wmu.Unlock()
PingWmuLock(c) ==
    /\ ping[c].pc = "write"
    /\ wmu[ping[c].wrap] = NoConn
    /\ wmu' = [wmu EXCEPT ![ping[c].wrap] = pingId(c)]
    /\ ping' = [ping EXCEPT ![c].pc = "io"]
    /\ UNCHANGED <<hubVars, objVars, mu>>

\* wrap.ws.WriteMessage(PingMessage, nil) succeeded; the deferred Unlock
PingIOOk(c) ==
    /\ ping[c].pc = "io"
    /\ ~closed[ping[c].wrap]
    /\ wmu' = [wmu EXCEPT ![ping[c].wrap] = NoConn]
    /\ ping' = [ping EXCEPT ![c] = [pc |-> "tick", wrap |-> NoConn, err |-> "",
                                    wrote |-> @.wrote \cup {@.wrap}]]
    /\ UNCHANGED <<hubVars, objVars, mu>>

\* the write failed; the deferred Unlock; conn.Close(); return
PingIOFail(c) ==
    /\ ping[c].pc = "io"
    /\ wmu' = [wmu EXCEPT ![ping[c].wrap] = NoConn]
    /\ ping' = [ping EXCEPT ![c] = [@ EXCEPT !.pc = "done", !.wrap = NoConn,
                                             !.err = "write"]]
    /\ closed' = [closed EXCEPT ![c] = TRUE]
    /\ UNCHANGED <<rooms, byConn, th, unreg, closeFrame, got, roomFull,
                   assigned, okSeqs, ackFloor, sig, sent, objVars, mu>>

\* Broadcast, loop: c.wmu.Lock()
SignalWmuLock(c, x) ==
    /\ th[c].pc = "sigWrite"
    /\ x \in th[c].targets
    /\ wmu[x] = NoConn
    /\ wmu' = [wmu EXCEPT ![x] = c]
    /\ th' = [th EXCEPT ![c].pc = "sigIO", ![c].cur = x]
    /\ UNCHANGED <<rooms, byConn, unreg, closed, closeFrame, got, roomFull,
                   assigned, okSeqs, ackFloor, sig, sent, objVars, ping, mu>>

\* the loop of Broadcast goes on; the frame in hand stays
afterSignal(t) ==
    IF t.targets = {t.cur} THEN reading(t)
    ELSE [t EXCEPT !.pc = "sigWrite", !.cur = NoConn, !.targets = @ \ {t.cur}]

\* c.ws.WriteMessage(TextMessage, msg) succeeded; c.wmu.Unlock()
SignalIOOk(c) ==
    LET x == th[c].cur
    IN  /\ th[c].pc = "sigIO"
        /\ ~closed[x]
        /\ sig' = [sig EXCEPT ![x] = Append(@, th[c].msg)]
        /\ wmu' = [wmu EXCEPT ![x] = NoConn]
        /\ th' = [th EXCEPT ![c] = afterSignal(th[c])]
        /\ UNCHANGED <<rooms, byConn, unreg, closed, closeFrame, got, roomFull,
                       assigned, okSeqs, ackFloor, sent, objVars, ping, mu>>

\* the write failed; c.wmu.Unlock(); c.ws.Close()
SignalIOFail(c) ==
    LET x == th[c].cur
    IN  /\ th[c].pc = "sigIO"
        /\ wmu' = [wmu EXCEPT ![x] = NoConn]
        /\ closed' = [closed EXCEPT ![x] = TRUE]
        /\ th' = [th EXCEPT ![c].pc = "sigUnreg"]
        /\ UNCHANGED <<rooms, byConn, unreg, closeFrame, got, roomFull, assigned,
                       okSeqs, ackFloor, sig, sent, objVars, ping, mu>>

\* h.Unregister(appID, c.ws) of the failed target, under h.mu
SignalUnregister(c) ==
    LET x == th[c].cur
    IN  /\ th[c].pc = "sigUnreg"
        /\ rooms' = unregisterRooms(rooms, byConn, x)
        /\ byConn' = unregisterByConn(byConn, x)
        /\ th' = [th EXCEPT ![c] = afterSignal(th[c])]
        /\ UNCHANGED <<unreg, closed, closeFrame, got, roomFull, assigned,
                       okSeqs, ackFloor, sig, sent, objVars, taskVars>>

\* The tasks of the Hub, every Lock and Unlock a step of its own where a
\* mutex stays held across statements that can wait; the critical sections
\* that take h.mu alone and run straight to their Unlock are one step each.
\* MsgConns sockets, LiveMaxSeq messages, MaxSignals frames; the first
\* socket connects as side B, the side that is sent to, and it is the one
\* whose ping task is followed; signaling frames come in on the second.
MutexNext ==
    \/ \E c \in 1..MsgConns, s \in Sides :
          fresh(c) /\ (c = 1 => s = "B") /\ RegisterLock(c, s)
    \/ \E c \in Conns : RegisterEvictLock(c)
    \/ \E c \in Conns : RegisterEvict(c)
    \/ \E c \in Conns : RegisterInsert(c)
    \/ \E c \in Conns : mu = NoConn /\ RoomSizeCheck(c)
    \/ \E c \in Conns : mu = NoConn /\ BroadcastEvent(c)
    \/ \E c, x \in Conns : EventWmuLock(c, x)
    \/ \E c \in Conns : EventIOOk(c)
    \/ \E c \in Conns : EventIOFail(c)
    \/ \E c \in Conns : mu = NoConn /\ EventUnregister(c)
    \/ \E c \in Conns : mu = NoConn /\ ReadErrorUnregister(c)
    \/ \E c \in Conns : ReadErrorClose(c)
    \/ mu = NoConn /\ gcLoop
    \/ \E c \in Conns, d \in Watermarks(LiveMaxSeq) : mu = NoConn /\ Hello(c, d)
    \/ \E c \in Conns, to \in ToValues, p \in Payloads :
          mu = NoConn /\ nextSeqOf(to) < LiveMaxSeq /\ Enqueue(c, to, p)
    \/ \E c \in Conns, m \in Watermarks(LiveMaxSeq) : mu = NoConn /\ AckUpTo(c, m)
    \/ \E c \in Conns : mu = NoConn /\ PushCheck(c)
    \/ \E c \in Conns : PushWmuLock(c)
    \/ \E c \in Conns : PushIOOk(c)
    \/ \E c \in Conns : PushIOFail(c)
    \/ \E c \in Conns : PushRelock(c)
    \/ \E c \in Conns : PushReturn(c)
    \/ \E c \in Conns : mu = NoConn /\ AsyncUnregister(c)
    \/ Len(sent) < MaxSignals /\ SignalRead(2)
    \/ \E c \in Conns : mu = NoConn /\ Broadcast(c)
    \/ \E c, x \in Conns : SignalWmuLock(c, x)
    \/ \E c \in Conns : SignalIOOk(c)
    \/ \E c \in Conns : SignalIOFail(c)
    \/ \E c \in Conns : mu = NoConn /\ SignalUnregister(c)
    \/ PingStart(1)
    \/ mu = NoConn /\ PingCheck(1)
    \/ PingWmuLock(1)
    \/ PingIOOk(1)
    \/ PingIOFail(1)
MutexSpec == Init /\ [][MutexNext]_vars

\* Signaling with at most n frames.
SignalSteps(n) ==
    \/ \E c \in Conns : Len(sent) < n /\ SignalRead(c)
    \/ \E c \in Conns : Broadcast(c)
    \/ \E c, x \in Conns : SignalWriteOk(c, x)
    \/ \E c, x \in Conns : SignalWriteFail(c, x)

\* Connection lifecycle and signaling: MaxConns sockets, MaxSignals frames.
SignalNext == ConnSteps(MaxConns) \/ SignalSteps(MaxSignals)
SignalSpec == Init /\ [][SignalNext]_vars

\* ------------------------------------------------- delivery under fairness
\* all seqs written to sockets of side s
receivedSet(s) == UNION {got[c] : c \in {d \in Conns : th[d].side = s}}
offline(s) == IF live THEN s \notin DOMAIN rooms[AppID].conns ELSE TRUE

\* the socket a push loop is about to write to has been closed
curClosed(c) == th[c].pc = "pushWrite" /\ closed[th[c].cur]

\* LiveSpec gives socket 1 to the sender A and the others to the receiver B,
\* which opens them in the order of their numbers.
liveSide(c) == IF c = 1 THEN "A" ELSE "B"
liveFresh(c) == \A d \in Conns : (1 < d /\ d < c) => th[d].pc # "new"

\* The environment C1 assumes: the room is not collected, a hello carries a
\* watermark the side has received, a write fails only on a closed socket.
\* At most cap messages are sent.
LiveSteps(cap) ==
    \/ \E c \in Conns : liveFresh(c) /\ Register(c, liveSide(c))
    \/ \E c \in Conns : RoomSizeCheck(c)
    \/ \E c \in Conns : BroadcastEvent(c)
    \/ \E c, x \in Conns : EventWriteOk(c, x)
    \/ \E c, x \in Conns : closed[x] /\ EventWriteFail(c, x)
    \/ \E c \in Conns : ReadError(c)
    \/ \E c \in Conns, d \in Watermarks(cap) :
          d <= received(th[c].side) /\ Hello(c, d)
    \/ \E c \in Conns, to \in Sides \cap ToValues, p \in Payloads :
          nextSeqOf(to) < cap /\ Enqueue(c, to, p)
    \/ \E c \in Conns, m \in Watermarks(cap) :
          (th[c].side = "B" \/ m <= received(th[c].side)) /\ AckUpTo(c, m)
    \/ \E c \in Conns : PushCheck(c)
    \/ \E c \in Conns : PushWriteOk(c)
    \/ \E c \in Conns : curClosed(c) /\ PushWriteFail(c)
    \/ \E c \in Conns : PushEnd(c)
    \/ \E c \in Conns : AsyncUnregister(c)

LiveNext == LiveSteps(LiveMaxSeq)

\* Disconnect and resume: the same steps with MaxSeq messages, no fairness.
ResumeNext == LiveSteps(MaxSeq)
ResumeSpec == Init /\ [][ResumeNext]_vars

\* the steps a handler goroutine takes on its own
Progress(c) ==
    \/ PushCheck(c)
    \/ PushWriteOk(c)
    \/ curClosed(c) /\ PushWriteFail(c)
    \/ PushEnd(c)
    \/ RoomSizeCheck(c)
    \/ BroadcastEvent(c)
    \/ \E x \in Conns : EventWriteOk(c, x)
    \/ \E x \in Conns : closed[x] /\ EventWriteFail(c, x)

\* side s, offline, connects again
Reconnect(s) ==
    \E c \in Conns : liveFresh(c) /\ liveSide(c) = s /\ offline(s) /\ Register(c, s)

\* Goroutines are scheduled (weak fairness of their own steps); a side that is
\* offline connects again as long as a socket is left.
LiveSpec ==
    /\ Init
    /\ [][LiveNext]_vars
    /\ \A c \in Conns : WF_vars(Progress(c))
    /\ \A c \in Conns : WF_vars(AsyncUnregister(c))
    /\ \A s \in Sides : WF_vars(Reconnect(s))

\* Mailbox traffic with the hello and delivered frames read first and
\* handled later. MsgConns sockets, LiveMaxSeq messages.
CallNext ==
    \/ ConnSteps(MsgConns)
    \/ MsgSteps(LiveMaxSeq)
    \/ \E c \in Conns, d \in Watermarks(LiveMaxSeq) : HelloRead(c, d)
    \/ \E c \in Conns : HelloCall(c)
    \/ \E c \in Conns, n \in Watermarks(LiveMaxSeq) : AckRead(c, n)
    \/ \E c \in Conns : AckCall(c)
CallSpec == Init /\ [][CallNext]_vars

\* Failing connections: lifecycle, mailbox traffic and signaling with reads
\* and writes that fail at any time, the teardown of a handler step by step.
\* MsgConns sockets, LiveMaxSeq messages, MaxSignals signaling frames.
FailNext ==
    \/ ConnSteps(MsgConns)
    \/ MsgSteps(LiveMaxSeq)
    \/ SignalSteps(MaxSignals)
    \/ \E c \in Conns : ReadErrorUnregister(c)
    \/ \E c \in Conns : ReadErrorClose(c)

\* The goroutine spawned by `go h.Unregister(...)` is scheduled and a
\* returning handler runs its deferred conn.Close().
FailSpec ==
    /\ Init
    /\ [][FailNext]_vars
    /\ \A c \in Conns : WF_vars(AsyncUnregister(c))
    /\ \A c \in Conns : WF_vars(ReadErrorClose(c))

\* ------------------------------------------------- object store: operations
\* Every step below is one system call of the handler (or a handler's
\* decision between two calls); the store takes no lock, so the steps of
\* two requests interleave freely.

\* a srvCommit that answers 500 for every error of Commit
status_noPathError(op, err) ==
    IF err = ""
    THEN IF op \in {"PutBlob", "PutManifest", "HEAD"} THEN 204 ELSE 200
    ELSE IF op \in {"GET", "HEAD"} THEN 404 ELSE 500

\* the status the handler of op answers with for an error of the store:
\* "" no error, "path" a *os.PathError, "link" a *os.LinkError (os.Rename),
\* "other" anything else (a JSON decode error, a broken stream, ErrNotExist)
status(op, err) ==
    IF err = ""
    THEN IF op \in {"PutBlob", "PutManifest", "HEAD"} THEN 204 ELSE 200
    ELSE CASE op = "Commit" -> IF err = "path" THEN 404 ELSE 500
           [] op \in {"GET", "HEAD"} -> 404
           [] OTHER -> 500

\* the handler returns: the worker is free; the response is kept for the
\* client of worker 1, whose view of the object the properties are about
trailAfter(t, op, x, st) ==
    CASE op = "PutBlob" /\ st = 204 /\ t.n \in {3, 4} -> [t EXCEPT !.n = 4, !.y = x]
      [] op = "PutBlob" /\ st = 204 /\ t.n \notin {3, 4} -> [noTrail EXCEPT !.n = 1, !.x = x]
      [] op = "PutManifest" /\ st = 204 /\ t.n = 1 -> [t EXCEPT !.n = 2]
      [] op = "PutManifest" /\ st = 204 /\ t.n = 4 -> [noTrail EXCEPT !.n = 2, !.x = t.y]
      [] op = "Commit" /\ st = 200 /\ t.n = 2      -> [t EXCEPT !.n = 3]
      [] OTHER                                     -> noTrail

finish(w, op, st, body, etag) ==
    IF w = 1
    THEN [idleRequest EXCEPT !.resp = [op |-> op, status |-> st,
                                       body |-> body, etag |-> etag],
                             !.trail = trailAfter(rq[w].trail, op, rq[w].x, st)]
    ELSE idleRequest

\* the store's call returns err to the handler of op, which answers
returned(w, op, err, etag) ==
    finish(w, op, status(op, err), "", IF err = "" THEN etag ELSE "")

\* what the return of op leaves in the history of the object
history(op, x, err) ==
    /\ created' = IF op = "Create" THEN (IF err = "" THEN "ok" ELSE "err")
                  ELSE created
    /\ okCommit' = (okCommit \/ (op = "Commit" /\ err = ""))
    /\ okBlobs' = IF op = "PutBlob" /\ err = "" THEN okBlobs \cup {x}
                  ELSE okBlobs

\* readMeta: os.Open(meta.json), then Decode
readMetaErr == IF ~fs.meta.ex THEN "path"
               ELSE IF ~fs.meta.full THEN "other" ELSE ""

\* os.Rename(from, to) moves the open descriptors along with the file; the
\* file that was at `to` is unlinked, and a reader of it keeps its bytes
renameFd(r, from, to, old) ==
    IF r.fd = from THEN [r EXCEPT !.fd = to]
    ELSE IF r.fd = to
         THEN [r EXCEPT !.fd = "none",
                        !.x = IF r.op = "GET" THEN old ELSE @]
         ELSE r

\* os.RemoveAll(objDir) unlinks every file of the object
removeFd(r) ==
    IF r.fd = "none" THEN r
    ELSE [r EXCEPT !.fd = "none",
                   !.x = IF r.op = "GET" THEN fs.blob.data ELSE @]

\* a write of data through a descriptor lands in the file it now names
writeBlob(fd, data) ==
    CASE fd = "blobTmp" -> [fs EXCEPT !.blobTmp.data = data]
      [] fd = "blob"    -> [fs EXCEPT !.blob.data = data]
      [] OTHER          -> fs

writeMeta(fd, m) ==
    CASE fd = "metaTmp" -> [fs EXCEPT !.metaTmp = [ex |-> TRUE, full |-> TRUE, m |-> m]]
      [] fd = "meta"    -> [fs EXCEPT !.meta = [ex |-> TRUE, full |-> TRUE, m |-> m]]
      [] OTHER          -> fs

\* The requests in flight: worker 1 serves any request, the other workers
\* serve the requests that write the object's state behind its back.
serves(w, op) == w = 1 \/ op \in {"PutBlob", "Commit", "GC"}
\* the streams a worker's clients upload
uploads(w) == IF w = 1 THEN Bytes ELSE {"y"}

\* the record of worker w as it takes a request: its run of calls goes on
taken(w) == [idleRequest EXCEPT !.trail = rq[w].trail]

\* worker w takes a request and is now at r; the run of calls of worker 1
\* ends where another worker's request comes between them
begin(w, r) ==
    [v \in Workers |-> IF v = w THEN r ELSE [rq[v] EXCEPT !.trail = noTrail]]

\* Create: uuidLike names a fresh id (one object is followed here);
\* os.MkdirAll(objDir), then m := Meta{0, "", now, false}
Create(w) ==
    /\ rq[w].pc = "idle"
    /\ serves(w, "Create")
    /\ created = "no"
    /\ fs' = [fs EXCEPT !.dir = TRUE]
    /\ rq' = begin(w, [taken(w) EXCEPT !.op = "Create", !.pc = "wjCreate",
                                         !.m = [zeroMeta EXCEPT !.createdAt = now]])
    /\ created' = "call"
    /\ UNCHANGED <<now, okCommit, okBlobs, crashed, hubVars, taskVars>>

\* writeJSON: os.Create(path + ".tmp")
WriteJSONCreate(w) ==
    /\ rq[w].pc = "wjCreate"
    /\ IF fs.dir
       THEN /\ fs' = [fs EXCEPT !.metaTmp = [ex |-> TRUE, full |-> FALSE, m |-> zeroMeta]]
            /\ rq' = [rq EXCEPT ![w] = [@ EXCEPT !.pc = "wjEncode", !.fd = "metaTmp"]]
            /\ UNCHANGED <<created, okCommit, okBlobs>>
       ELSE /\ rq' = [rq EXCEPT ![w] = returned(w, rq[w].op, "path", "")]
            /\ history(rq[w].op, rq[w].x, "path")
            /\ UNCHANGED fs
    /\ UNCHANGED <<now, crashed, hubVars, taskVars>>

\* writeJSON: enc.Encode(v), f.Sync(), f.Close()
WriteJSONEncode(w) ==
    /\ rq[w].pc = "wjEncode"
    /\ fs' = writeMeta(rq[w].fd, rq[w].m)
    /\ rq' = [rq EXCEPT ![w] = [@ EXCEPT !.pc = "wjRename", !.fd = "none"]]
    /\ UNCHANGED <<now, created, okCommit, okBlobs, crashed, hubVars, taskVars>>

\* writeJSON: os.Create, Encode or Sync returns an error of the file
\* system (a *os.PathError: no space left, I/O error); what is in
\* meta.json.tmp stays there
WriteJSONFail(w) ==
    /\ rq[w].pc \in {"wjCreate", "wjEncode"}
    /\ rq' = [rq EXCEPT ![w] = returned(w, rq[w].op, "path", "")]
    /\ history(rq[w].op, rq[w].x, "path")
    /\ UNCHANGED <<fs, now, crashed, hubVars, taskVars>>

\* writeJSON: os.Rename(tmp, path), and the return of the caller
WriteJSONRename(w) ==
    /\ rq[w].pc = "wjRename"
    /\ IF fs.metaTmp.ex
       THEN /\ fs' = [fs EXCEPT !.meta = fs.metaTmp, !.metaTmp = noMetaFile]
            /\ rq' = [v \in Workers |->
                        IF v = w THEN returned(w, rq[w].op, "", rq[w].m.etag)
                        ELSE renameFd(rq[v], "metaTmp", "meta", "")]
            /\ history(rq[w].op, rq[w].x, "")
       ELSE /\ rq' = [rq EXCEPT ![w] = returned(w, rq[w].op, "link", "")]
            /\ history(rq[w].op, rq[w].x, "link")
            /\ UNCHANGED fs
    /\ UNCHANGED <<now, crashed, hubVars, taskVars>>

\* PutBlob: os.Create(blob.tmp)
PutBlob(w, b) ==
    /\ rq[w].pc = "idle"
    /\ serves(w, "PutBlob")
    /\ created = "ok"
    /\ IF fs.dir
       THEN /\ fs' = [fs EXCEPT !.blobTmp = [ex |-> TRUE, data |-> ""]]
            /\ rq' = begin(w, [taken(w) EXCEPT !.op = "PutBlob", !.pc = "pbCopy",
                                                 !.x = b, !.fd = "blobTmp"])
       ELSE /\ rq' = begin(w, returned(w, "PutBlob", "path", ""))
            /\ UNCHANGED fs
    /\ UNCHANGED <<now, created, okCommit, okBlobs, crashed, hubVars, taskVars>>

\* PutBlob: io.Copy streams the first part of the body to the file
PutBlobCopy(w) ==
    /\ rq[w].pc = "pbCopy"
    /\ fs' = writeBlob(rq[w].fd, Partial)
    /\ rq' = [rq EXCEPT ![w].pc = "pbRest"]
    /\ UNCHANGED <<now, created, okCommit, okBlobs, crashed, hubVars, taskVars>>

\* PutBlob: io.Copy streams the rest of the body; f.Sync()
PutBlobRest(w) ==
    /\ rq[w].pc = "pbRest"
    /\ fs' = writeBlob(rq[w].fd, rq[w].x)
    /\ rq' = [rq EXCEPT ![w] = [@ EXCEPT !.pc = "pbMeta", !.fd = "none"]]
    /\ UNCHANGED <<now, created, okCommit, okBlobs, crashed, hubVars, taskVars>>

\* PutBlob: io.Copy returns an error, the client's stream broke off
PutBlobAbort(w) ==
    /\ rq[w].pc \in {"pbCopy", "pbRest"}
    /\ rq' = [rq EXCEPT ![w] = returned(w, "PutBlob", "other", "")]
    /\ UNCHANGED <<fs, now, created, okCommit, okBlobs, crashed, hubVars, taskVars>>

\* a PutBlob that writes a new meta record instead of the one it read
PutBlobMeta_newRecord(w) ==
    /\ rq[w].pc = "pbMeta"
    /\ rq' = [rq EXCEPT ![w] =
                IF readMetaErr # "" THEN returned(w, "PutBlob", readMetaErr, "")
                ELSE [@ EXCEPT !.pc = "wjCreate",
                               !.m = [zeroMeta EXCEPT !.size = size(rq[w].x),
                                                      !.etag = sha256(rq[w].x)]]]
    /\ UNCHANGED <<fs, now, created, okCommit, okBlobs, crashed, hubVars, taskVars>>

\* PutBlob: readMeta, m.Size = n, m.ETag = etag
PutBlobMeta(w) ==
    /\ rq[w].pc = "pbMeta"
    /\ rq' = [rq EXCEPT ![w] =
                IF readMetaErr # "" THEN returned(w, "PutBlob", readMetaErr, "")
                ELSE [@ EXCEPT !.pc = "wjCreate",
                               !.m = [fs.meta.m EXCEPT !.size = size(rq[w].x),
                                                       !.etag = sha256(rq[w].x)]]]
    /\ UNCHANGED <<fs, now, created, okCommit, okBlobs, crashed, hubVars, taskVars>>

\* PutManifest: os.Create(manifest.json)
PutManifest(w) ==
    /\ rq[w].pc = "idle"
    /\ serves(w, "PutManifest")
    /\ created = "ok"
    /\ IF fs.dir
       THEN /\ fs' = [fs EXCEPT !.manifest = [ex |-> TRUE, data |-> ""]]
            /\ rq' = begin(w, [taken(w) EXCEPT !.op = "PutManifest", !.pc = "pmCopy",
                                                 !.fd = "manifest"])
       ELSE /\ rq' = begin(w, returned(w, "PutManifest", "path", ""))
            /\ UNCHANGED fs
    /\ UNCHANGED <<now, created, okCommit, okBlobs, crashed, hubVars, taskVars>>

\* PutManifest: io.Copy, f.Sync()
PutManifestCopy(w) ==
    /\ rq[w].pc = "pmCopy"
    /\ fs' = IF rq[w].fd = "manifest" THEN [fs EXCEPT !.manifest.data = Manifest]
             ELSE fs
    /\ rq' = [rq EXCEPT ![w] = returned(w, "PutManifest", "", "")]
    /\ UNCHANGED <<now, created, okCommit, okBlobs, crashed, hubVars, taskVars>>

\* Commit: readMeta
Commit(w) ==
    /\ rq[w].pc = "idle"
    /\ serves(w, "Commit")
    /\ created = "ok"
    /\ rq' = begin(w,
                IF readMetaErr # "" THEN returned(w, "Commit", readMetaErr, "")
                ELSE [taken(w) EXCEPT !.op = "Commit", !.pc = "cStatTmp", !.m = fs.meta.m])
    /\ UNCHANGED <<fs, now, created, okCommit, okBlobs, crashed, hubVars, taskVars>>

\* Commit: os.Stat(blob.tmp)
CommitStatTmp(w) ==
    /\ rq[w].pc = "cStatTmp"
    /\ rq' = [rq EXCEPT ![w] =
                IF fs.blobTmp.ex THEN [@ EXCEPT !.pc = "cStatManifest"]
                ELSE returned(w, "Commit", "path", "")]
    /\ UNCHANGED <<fs, now, created, okCommit, okBlobs, crashed, hubVars, taskVars>>

\* Commit: os.Stat(manifest.json)
CommitStatManifest(w) ==
    /\ rq[w].pc = "cStatManifest"
    /\ rq' = [rq EXCEPT ![w] =
                IF fs.manifest.ex THEN [@ EXCEPT !.pc = "cRename"]
                ELSE returned(w, "Commit", "path", "")]
    /\ UNCHANGED <<fs, now, created, okCommit, okBlobs, crashed, hubVars, taskVars>>

\* a Commit that renames and leaves m.Committed as it read it
CommitRename_noFlip(w) ==
    /\ rq[w].pc = "cRename"
    /\ IF fs.blobTmp.ex
       THEN /\ fs' = [fs EXCEPT !.blob = fs.blobTmp, !.blobTmp = noFile]
            /\ rq' = [v \in Workers |->
                        IF v = w THEN [rq[w] EXCEPT !.pc = "wjCreate"]
                        ELSE renameFd(rq[v], "blobTmp", "blob", fs.blob.data)]
       ELSE /\ rq' = [rq EXCEPT ![w] = returned(w, "Commit", "link", "")]
            /\ UNCHANGED fs
    /\ UNCHANGED <<now, created, okCommit, okBlobs, crashed, hubVars, taskVars>>

\* Commit: os.Rename(blob.tmp, blob), then m.Committed = true
CommitRename(w) ==
    /\ rq[w].pc = "cRename"
    /\ IF fs.blobTmp.ex
       THEN /\ fs' = [fs EXCEPT !.blob = fs.blobTmp, !.blobTmp = noFile]
            /\ rq' = [v \in Workers |->
                        IF v = w
                        THEN [rq[w] EXCEPT !.pc = "wjCreate",
                                           !.m = [@ EXCEPT !.committed = TRUE]]
                        ELSE renameFd(rq[v], "blobTmp", "blob", fs.blob.data)]
       ELSE /\ rq' = [rq EXCEPT ![w] = returned(w, "Commit", "link", "")]
            /\ UNCHANGED fs
    /\ UNCHANGED <<now, created, okCommit, okBlobs, crashed, hubVars, taskVars>>

\* srvBlob GET/HEAD: StatBlob's readMeta
StatBlob(w, method) ==
    /\ rq[w].pc = "idle"
    /\ serves(w, method)
    /\ created = "ok"
    /\ rq' = begin(w,
                IF readMetaErr # "" THEN returned(w, method, readMetaErr, "")
                ELSE [taken(w) EXCEPT !.op = method, !.pc = "sbStat", !.m = fs.meta.m])
    /\ UNCHANGED <<fs, now, created, okCommit, okBlobs, crashed, hubVars, taskVars>>

\* a srvBlob that serves whatever StatBlob found, committed or not
srvBlob_ungated(w) ==
    /\ rq[w].pc = "sbStat"
    /\ rq' = [rq EXCEPT ![w] =
                IF ~(fs.blob.ex \/ fs.blobTmp.ex) THEN returned(w, rq[w].op, "other", "")
                ELSE IF rq[w].op = "HEAD" THEN returned(w, "HEAD", "", rq[w].m.etag)
                ELSE [@ EXCEPT !.pc = "sbOpen"]]
    /\ UNCHANGED <<fs, now, created, okCommit, okBlobs, crashed, hubVars, taskVars>>

\* a srvBlob that takes the presence of the file blob for the commit
srvBlob_byFile(w) ==
    /\ rq[w].pc = "sbStat"
    /\ rq' = [rq EXCEPT ![w] =
                IF ~(fs.blob.ex \/ fs.blobTmp.ex) THEN returned(w, rq[w].op, "other", "")
                ELSE IF ~fs.blob.ex THEN finish(w, rq[w].op, 409, "", "")
                ELSE IF rq[w].op = "HEAD" THEN returned(w, "HEAD", "", rq[w].m.etag)
                ELSE [@ EXCEPT !.pc = "sbOpen"]]
    /\ UNCHANGED <<fs, now, created, okCommit, okBlobs, crashed, hubVars, taskVars>>

\* srvBlob GET/HEAD: StatBlob's os.Stat(blob), os.Stat(blob.tmp); then the
\* handler answers 409 unless meta.Committed, and a HEAD with the ETag
srvBlob(w) ==
    /\ rq[w].pc = "sbStat"
    /\ rq' = [rq EXCEPT ![w] =
                IF ~(fs.blob.ex \/ fs.blobTmp.ex) THEN returned(w, rq[w].op, "other", "")
                ELSE IF ~rq[w].m.committed THEN finish(w, rq[w].op, 409, "", "")
                ELSE IF rq[w].op = "HEAD" THEN returned(w, "HEAD", "", rq[w].m.etag)
                ELSE [@ EXCEPT !.pc = "sbOpen"]]
    /\ UNCHANGED <<fs, now, created, okCommit, okBlobs, crashed, hubVars, taskVars>>

\* srvBlob GET: OpenFile is os.Open(blob)
OpenFile(w) ==
    /\ rq[w].pc = "sbOpen"
    /\ rq' = [rq EXCEPT ![w] =
                IF fs.blob.ex THEN [@ EXCEPT !.pc = "sbServe", !.fd = "blob"]
                ELSE returned(w, "GET", "path", "")]
    /\ UNCHANGED <<fs, now, created, okCommit, okBlobs, crashed, hubVars, taskVars>>

\* srvBlob GET: http.ServeContent sends the file with ETag meta.ETag
ServeContent(w) ==
    /\ rq[w].pc = "sbServe"
    /\ rq' = [rq EXCEPT ![w] =
                finish(w, "GET", 200,
                       IF rq[w].fd = "blob" THEN fs.blob.data ELSE rq[w].x,
                       rq[w].m.etag)]
    /\ UNCHANGED <<fs, now, created, okCommit, okBlobs, crashed, hubVars, taskVars>>

\* GC that spares the committed objects
GC_uncommittedOnly(w) ==
    /\ rq[w].pc = "idle"
    /\ serves(w, "GC")
    /\ \A v \in Workers : rq[v].op # "GC"
    /\ fs.dir
    /\ rq' = begin(w,
                IF \/ readMetaErr # ""
                   \/ (now - fs.meta.m.createdAt >= objTTL /\ ~fs.meta.m.committed)
                THEN [taken(w) EXCEPT !.op = "GC", !.pc = "gcDelete"]
                ELSE finish(w, "GC", 0, "", ""))
    /\ UNCHANGED <<fs, now, created, okCommit, okBlobs, crashed, hubVars, taskVars>>

\* GC: os.ReadDir finds the directory; readMeta; the object is to be
\* deleted if readMeta fails or now.Sub(m.CreatedAt) >= ttl
GC(w) ==
    /\ rq[w].pc = "idle"
    /\ serves(w, "GC")
    /\ \A v \in Workers : rq[v].op # "GC"
    /\ fs.dir
    /\ rq' = begin(w,
                IF readMetaErr # "" \/ now - fs.meta.m.createdAt >= objTTL
                THEN [taken(w) EXCEPT !.op = "GC", !.pc = "gcDelete"]
                ELSE finish(w, "GC", 0, "", ""))
    /\ UNCHANGED <<fs, now, created, okCommit, okBlobs, crashed, hubVars, taskVars>>

\* GC: Delete is os.RemoveAll(objDir)
Delete(w) ==
    /\ rq[w].pc = "gcDelete"
    /\ fs' = noObject
    /\ rq' = [v \in Workers |->
                IF v = w THEN finish(w, "GC", 0, "", "") ELSE removeFd(rq[v])]
    /\ UNCHANGED <<now, created, okCommit, okBlobs, crashed, hubVars, taskVars>>

\* time passes; the ticks are counted from the creation of the object
Tick ==
    /\ created # "no"
    /\ now < MaxNow
    /\ now' = now + 1
    /\ UNCHANGED <<fs, rq, created, okCommit, okBlobs, crashed, hubVars, taskVars>>

\* The server process dies and is started again: the handlers in flight are
\* gone with their descriptors, no response is sent, and the files are as
\* the file operations done so far have left them. A Create cut short has
\* not returned an id.
Crash ==
    /\ Len(crashed) < MaxCrashes
    /\ \E w \in Workers : rq[w].pc # "idle"
    /\ crashed' = Append(crashed, [w \in Workers |-> [op |-> rq[w].op, pc |-> rq[w].pc]])
    /\ rq' = [w \in Workers |-> idleRequest]
    /\ created' = IF created = "call" THEN "err" ELSE created
    /\ UNCHANGED <<fs, now, okCommit, okBlobs, hubVars, taskVars>>

\* the requests in flight that write the object
writing == {v \in Workers : rq[v].op \in {"PutBlob", "PutManifest", "Commit"}}

\* the steps of the workers W, with at most k writing requests in flight
ObjSteps(W, k) ==
    \/ Tick
    \/ \E w \in W :
          \/ Create(w) \/ WriteJSONCreate(w) \/ WriteJSONEncode(w)
          \/ WriteJSONFail(w) \/ WriteJSONRename(w)
          \/ \E b \in uploads(w) : Cardinality(writing) < k /\ PutBlob(w, b)
          \/ PutBlobCopy(w) \/ PutBlobRest(w) \/ PutBlobAbort(w) \/ PutBlobMeta(w)
          \/ Cardinality(writing) < k /\ PutManifest(w)
          \/ PutManifestCopy(w)
          \/ Cardinality(writing) < k /\ Commit(w)
          \/ CommitStatTmp(w) \/ CommitStatManifest(w) \/ CommitRename(w)
          \/ \E method \in {"GET", "HEAD"} : StatBlob(w, method)
          \/ srvBlob(w) \/ OpenFile(w) \/ ServeContent(w)
          \/ GC(w) \/ Delete(w)

\* the object store serving MaxWorkers requests at a time
ObjNext == ObjSteps(Workers, MaxWorkers)
ObjSpec == Init /\ [][ObjNext]_vars

\* the client contract, one uploader per id: the requests that write the
\* object come one after the other, reads and GC run beside them
UploaderNext == ObjSteps(Workers, 1)
UploaderSpec == Init /\ [][UploaderNext]_vars

\* the object store serving one request after the other
SeqNext == ObjSteps({1}, 1)
SeqSpec == Init /\ [][SeqNext]_vars

\* one request after the other, and the process may die in the middle of one
CrashNext == ObjSteps({1}, 1) \/ Crash
CrashSpec == Init /\ [][CrashNext]_vars

\* the writing calls of the store racing on one id: no lock serializes
\* PutBlob, PutManifest and Commit, and each is a run of file operations
RaceNext ==
    \E w \in Workers :
       \/ Create(w) \/ WriteJSONCreate(w) \/ WriteJSONEncode(w)
       \/ WriteJSONFail(w) \/ WriteJSONRename(w)
       \/ \E b \in uploads(w) : PutBlob(w, b)
       \/ PutBlobCopy(w) \/ PutBlobRest(w) \/ PutBlobAbort(w) \/ PutBlobMeta(w)
       \/ PutManifest(w) \/ PutManifestCopy(w)
       \/ Commit(w)
       \/ CommitStatTmp(w) \/ CommitStatManifest(w) \/ CommitRename(w)
RaceSpec == Init /\ [][RaceNext]_vars

\* ===================================================================== claims
Range(f) == {f[i] : i \in DOMAIN f}
mbox(s) == rooms[AppID].mboxes[s]
inPush(c) == th[c].pc \in {"pushCheck", "pushWrite", "pushEnd"}
ascending(q) == \A i, j \in DOMAIN q : i < j => q[i].seq < q[j].seq

\* side s is offline and the model has no socket left for it
exhausted(s) == offline(s) /\ \A c \in Conns : liveSide(c) = s => th[c].pc # "new"

\* C1 (as stated): a message whose Enqueue returned ok is eventually written
\* to a socket of its side (the side keeps connecting while sockets are left).
C1_Delivered ==
    \A k \in 1..LiveMaxSeq :
        (k \in okSeqs["B"]) ~> (k \in receivedSet("B") \/ exhausted("B"))

\* C1 (amended): the same, provided the delivered frames of the side, like
\* its hello frames, acknowledge no seq the side has not received: the
\* message is written unless a delivered frame has acknowledged its seq first.
C1_DeliveredIfAcksHonest ==
    \A k \in 1..LiveMaxSeq :
        (k \in okSeqs["B"]) ~>
            \/ k \in receivedSet("B")
            \/ exhausted("B")
            \/ ackFloor["B"] >= k

\* B was offline when seq 1 was accepted, connected later and was sent it
C1_Witness ==
    /\ 1 \in okSeqs["B"]
    /\ 1 \in receivedSet("B")
    /\ \E c \in Conns : th[c].side = "B" /\ th[c].caller = "Register"

\* C2 (as stated): the deliver frames written to one socket are ascending in
\* seq: no frame is written after a frame with a higher seq.
C2_ConnAscending ==
    [][\A c \in Conns : PushWriteOk(c) =>
          Head(th[c].frames).seq >= MaxOf(got[th[c].cur])]_vars

\* C2 (amended): every push loop writes the frames of its own snapshot in
\* strictly ascending seq; the frames a loop still has to write are ascending
\* and each write is followed by a frame with a higher seq.
C2_LoopAscending ==
    [][\A c \in Conns :
          /\ inPush(c)' => ascending(th[c].frames)'
          /\ (PushWriteOk(c) /\ th'[c].frames # <<>>) =>
                Head(th'[c].frames).seq > Head(th[c].frames).seq]_vars

C2_Witness ==
    \E c \in Conns : th[c].pc = "pushCheck" /\ Len(th[c].frames) = 1
                     /\ 1 \in got[th[c].cur] /\ Head(th[c].frames).seq = 2

\* C3 (as stated): every mailbox queue is strictly ascending in seq and
\* every queued entry has seq > deliveredUpTo.
C3_QueueAboveWatermark ==
    live => \A s \in Sides :
               /\ ascending(mbox(s).queue)
               /\ \A q \in Range(mbox(s).queue) : q.seq > mbox(s).deliveredUpTo

\* C4 (as stated): deliveredUpTo <= nextSeq for every mailbox.
C4_WatermarkBelowNextSeq ==
    live => \A s \in Sides : mbox(s).deliveredUpTo <= mbox(s).nextSeq

\* C5 (as stated): no queue is longer than MAX_BACKLOG, and an Enqueue that
\* would exceed the cap leaves the queue as it was.
C5_BacklogCap ==
    [][live' => \A s \in Sides :
          /\ Len(mbox(s).queue') <= maxMailboxQueued
          /\ (live /\ assigned'[s] # assigned[s]
                   /\ Len(mbox(s).queue) >= maxMailboxQueued)
                => mbox(s).queue' = mbox(s).queue]_vars

C7_WatermarkMonotone ==
    [][\A s \in Sides :
          (live /\ live') => mbox(s).deliveredUpTo' >= mbox(s).deliveredUpTo]_vars

\* an acknowledgment left the watermark at 1 and a later hello raised it to 2
C7_Witness ==
    live /\ ackFloor["B"] = 1 /\ mbox("B").deliveredUpTo = 2

\* C8 (as stated): once AckUpTo(s, n) has returned, every deliver frame
\* written to side s has seq > max(previous deliveredUpTo, n).
C8_NoFrameBelowAck ==
    [][\A c \in Conns : PushWriteOk(c) =>
          Head(th[c].frames).seq > ackFloor[th[c].pside]]_vars

\* C8 (amended): every frame of a push loop that took its snapshot after
\* AckUpTo(s, n) returned has seq > max(previous deliveredUpTo, n).
C8_SnapshotAboveAck ==
    \A c \in Conns : inPush(c) =>
        \A f \in Range(th[c].frames) : f.seq > th[c].snapAck

C8_Witness ==
    \E c \in Conns : th[c].pc = "pushWrite" /\ th[c].snapAck = 1
                     /\ Head(th[c].frames).seq = 2

\* the sockets registered for side s, by either index
registeredFor(s) ==
    {c \in DOMAIN byConn : byConn[c].side = s}
    \cup (IF live /\ s \in DOMAIN rooms[AppID].conns
          THEN {rooms[AppID].conns[s]} ELSE {})

\* C9: at most one socket is registered per side; a Register that finds the
\* side taken writes the close frame (1000, "replaced") to the old socket,
\* closes it, registers the new one and leaves RoomSize as it was.
C9_OnePerSide ==
    [][/\ \A s \in Sides : Cardinality(registeredFor(s)') <= 1
       /\ \A c \in Conns, s \in Sides :
             (Register(c, s) /\ live /\ oldConn(rooms[AppID], s) # NoConn) =>
                LET old == oldConn(rooms[AppID], s)
                IN  /\ closeFrame'[old] = <<1000, "replaced">>
                    /\ closed'[old]
                    /\ registeredFor(s)' = {c}
                    /\ RoomSize(AppID)' = RoomSize(AppID)]_vars

\* a socket was displaced while the other side was connected
C9_Witness ==
    /\ \E c \in Conns : closeFrame[c] = <<1000, "replaced">>
    /\ RoomSize(AppID) = 2

\* C10 (as stated): a socket receives the room_full event once.
C10_RoomFullOnce == \A c \in Conns : roomFull[c] <= 1

\* q continues p
isPrefix(p, q) == Len(p) <= Len(q) /\ \A i \in DOMAIN p : q[i] = p[i]
seqsOf(q) == {q[i].seq : i \in DOMAIN q}

registered(c) == live /\ oldConn(rooms[AppID], th[c].side) = c

\* a step in which Unregister(appID, c) runs: the handler's teardown, the
\* goroutine spawned by a failed push write, a failed broadcast write
unregisters(c) ==
    \/ ReadError(c)
    \/ AsyncUnregister(c)
    \/ \E x \in Conns : EventWriteFail(x, c)

\* C12: Unregister(appID, c) removes c if it is the registered handle of its
\* side and changes nothing else; if c was displaced, conns, byConn and the
\* mailboxes stay as they were and the replacement stays registered.
C12_UnregisterOwnHandle ==
    [][\A c \in Conns : unregisters(c) =>
          IF registered(c)
          THEN /\ rooms' = [rooms EXCEPT
                              ![AppID].conns = MapDelete(@, th[c].side)]
               /\ byConn' = MapDelete(byConn, c)
          ELSE /\ rooms' = rooms
               /\ byConn' = byConn]_vars

\* the handler of a displaced socket has run its teardown and the
\* replacement is still registered
C12_Witness ==
    \E c, d \in Conns :
        /\ c # d
        /\ th[c].pc = "done"
        /\ closeFrame[c] = <<1000, "replaced">>
        /\ th[d].side = th[c].side
        /\ registered(d)
        /\ d \in DOMAIN byConn

\* a step in which socket c disconnects or a write to it fails
fails(c) ==
    \/ unregisters(c)
    \/ \E x \in Conns : PushWriteFail(x) /\ th[x].cur = c

\* the frames written to socket c: deliver, room_full, close
framesTo(c) == <<got[c], roomFull[c], closeFrame[c]>>

\* C13: when a socket of one side disconnects or fails, the other side's
\* socket stays registered, the mailboxes stay as they were and no frame is
\* written to any other socket.
C13_PeerUnaffected ==
    [][\A c \in Conns : (fails(c) /\ live) =>
          /\ live'
          /\ rooms'[AppID].mboxes = rooms[AppID].mboxes
          /\ \A p \in Sides \ {th[c].side} :
                /\ oldConn(rooms'[AppID], p) = oldConn(rooms[AppID], p)
                /\ \A d \in Conns : th[d].side = p =>
                      (d \in DOMAIN byConn) = (d \in DOMAIN byConn')
          /\ \A d \in Conns \ {c} :
                framesTo(d)' = framesTo(d) /\ closed'[d] = closed[d]]_vars

\* A's handler has torn down; B is registered and its mailbox holds a frame
C13_Witness ==
    \E c, d \in Conns :
        /\ th[c].side = "A" /\ th[c].pc = "done" /\ closeFrame[c] = <<>>
        /\ th[d].side = "B" /\ registered(d) /\ d \in DOMAIN byConn
        /\ mbox("B").queue # <<>>

\* the sockets registered in the room
registeredConns == IF live THEN {rooms[AppID].conns[s] : s \in DOMAIN rooms[AppID].conns}
                   ELSE {}

\* a step of the signaling lane taken by the handler of socket c
signals(c) ==
    \/ SignalRead(c)
    \/ Broadcast(c)
    \/ \E x \in Conns : SignalWriteOk(c, x) \/ SignalWriteFail(c, x)

C15_GcCondition ==
    [][live =>
          /\ gcLoop =>
                (~live' <=> /\ DOMAIN rooms[AppID].conns = {}
                            /\ rooms[AppID].idle + gcInterval > roomTTL)
          /\ ~live' => gcLoop /\ RoomSize(AppID) = 0]_vars

\* the room of a socket that has disconnected was deleted
C15_Witness ==
    /\ ~live
    /\ \E c \in Conns : th[c].pc = "done"
    /\ \A c \in Conns : th[c].pc \in {"new", "done"}

\* C16 (as stated): when gcLoop deletes a room, at least roomTTL has passed
\* since its last connection was unregistered.  A tick that finds the room
\* vacant for the (k+1)-th time comes less than (k+1) * gcInterval after the
\* disconnect.
C16_KeptForTTL ==
    [][(live /\ ~live') => rooms[AppID].vacant >= roomTTL]_vars

\* the step is worker 1's answer to a request of kind op
answers(op) == rq'[1].resp.op = op /\ rq'[1] # rq[1]

\* C17: with one request served at a time, GET and HEAD of the blob answer
\* 409 for an object that was uploaded and never committed, answer with
\* success only when meta.committed is true, and right after the calls
\* PutBlob(x); PutManifest; Commit have succeeded in this order a GET
\* returns the bytes x with the ETag sha256(x) (a HEAD the same ETag).
C17_GatedRoundTrip ==
    [][\A op \in {"GET", "HEAD"} :
          answers(op) =>
             LET r == rq'[1].resp
                 t == rq[1].trail
             IN  /\ (fs.dir /\ okBlobs # {} /\ ~okCommit) => r.status = 409
                 /\ r.status \in {200, 204} => fs.meta.m.committed
                 /\ t.n = 3 =>
                       /\ r.status = IF op = "GET" THEN 200 ELSE 204
                       /\ r.etag = sha256(t.x)
                       /\ op = "GET" => r.body = t.x]_vars

\* a GET has returned the committed bytes "y" with their ETag
C17_Witness ==
    /\ rq[1].resp = [op |-> "GET", status |-> 200, body |-> "y", etag |-> sha256("y")]
    /\ okCommit /\ "y" \in okBlobs

\* the Commit of worker w has renamed blob.tmp and is writing the meta
pastRename(w) ==
    rq[w].op = "Commit" /\ rq[w].pc \in {"wjCreate", "wjEncode", "wjRename"}

\* C18 as stated: in every state the file blob exists only if a Commit of
\* the object has returned success, and once a Commit has returned success
\* the blob exists and meta.committed is true (while the object exists).
C18_BlobIffCommitted ==
    /\ fs.blob.ex => okCommit
    /\ (okCommit /\ fs.dir) =>
          fs.blob.ex /\ fs.meta.ex /\ fs.meta.full /\ fs.meta.m.committed

\* C18 amended: with one uploader per id, the file blob appears only in
\* the rename of a Commit that has found blob.tmp and manifest.json (that
\* Commit has not returned yet, and may still fail); once a Commit has
\* returned success the blob exists and meta.committed is true for as
\* long as the object exists.
C18_BlobAfterRename ==
    [][/\ (~fs.blob.ex /\ fs'.blob.ex) =>
             \E w \in Workers : /\ rq[w].op = "Commit" /\ rq[w].pc = "cRename"
                                 /\ pastRename(w)'
       /\ (okCommit' /\ fs'.dir) =>
             fs'.blob.ex /\ fs'.meta.ex /\ fs'.meta.full /\ fs'.meta.m.committed]_vars

\* a committed object on which a later upload has been staged
C18_Witness ==
    /\ okCommit /\ fs.blob.ex /\ fs.meta.m.committed
    /\ fs.blobTmp.ex /\ fs.blobTmp.data = "y" /\ fs.blob.data = "x"

\* the step is one of the Commit that worker w serves
commitStep(w) == rq[w].op = "Commit" /\ rq'[w].pc # rq[w].pc

\* the step is the return of that Commit with an error
commitFails(w) ==
    /\ commitStep(w) /\ rq'[w].pc = "idle"
    /\ ~(rq[w].pc = "wjRename" /\ fs.metaTmp.ex)

\* the step finds the file missing that Commit checks at pc, answers 404
\* and changes nothing
missing404(w, pc, file) ==
    (commitStep(w) /\ rq[w].pc = pc /\ ~file.ex) =>
        /\ commitFails(w) /\ fs' = fs
        /\ w = 1 => rq'[w].resp = [op |-> "Commit", status |-> 404,
                                    body |-> "", etag |-> ""]

\* C19 as stated: Commit fails with 404 when blob.tmp or manifest.json is
\* missing, and a Commit that fails leaves the object as it was: no file
\* blob has appeared through it and meta.json is what it was.
C19_FailedCommitNoEffect ==
    [][\A w \in Workers :
          /\ missing404(w, "cStatTmp", fs.blobTmp)
          /\ missing404(w, "cStatManifest", fs.manifest)
          /\ commitFails(w) => (fs'.blob.ex => ~pastRename(w))
          /\ commitFails(w) => fs'.meta = fs.meta]_vars

\* C19 amended: Commit fails with 404 and changes nothing when blob.tmp or
\* manifest.json is missing at its check; no step of a Commit changes
\* meta.json except the last step of a Commit that succeeds, and no step
\* but its rename changes the file blob; a Commit that fails after its
\* rename leaves blob where the rename put it.
C19_FailedCommitKeepsMeta ==
    [][\A w \in Workers :
          /\ missing404(w, "cStatTmp", fs.blobTmp)
          /\ missing404(w, "cStatManifest", fs.manifest)
          /\ commitStep(w) =>
                /\ fs'.meta # fs.meta => (okCommit' /\ ~commitFails(w))
                /\ fs'.blob # fs.blob => (rq[w].pc = "cRename" /\ fs.blobTmp.ex)
          /\ (commitFails(w) /\ pastRename(w) /\ fs.dir) =>
                fs'.blob.ex /\ ~fs'.blobTmp.ex]_vars

\* the Commit of worker 1 has failed after its rename: blob is there,
\* blob.tmp is gone, meta.committed is false and no Commit has succeeded
C19_Witness ==
    /\ rq[1].resp.op = "Commit" /\ rq[1].resp.status = 404
    /\ fs.blob.ex /\ ~fs.blobTmp.ex /\ fs.manifest.ex
    /\ fs.meta.full /\ ~fs.meta.m.committed /\ ~okCommit

\* the step is one of the PutBlob that worker w serves
putBlobStep(w) == rq[w].op = "PutBlob" /\ rq'[w].pc # rq[w].pc

C21_NoPartialUpload ==
    (rq[1].resp.op = "GET" /\ rq[1].resp.status = 200) =>
        rq[1].resp.body \in okBlobs

\* the object's meta.json cannot be read, or the object is ttl old
gcDue == ~(fs.meta.ex /\ fs.meta.full) \/ now - fs.meta.m.createdAt >= objTTL

\* C22: GC decides to delete the object exactly if its meta cannot be read
\* or now - createdAt >= ttl, whether it is committed or not, and its
\* decision changes no file; the directory goes only by the Delete of a GC
\* that decided so, which removes it whole.
C22_GcDeletesIffDue ==
    [][/\ \A w \in Workers :
            GC(w) => /\ fs' = fs
                     /\ (rq'[w].pc = "gcDelete") <=> gcDue
       /\ (fs.dir /\ ~fs'.dir) =>
            \E w \in Workers : rq[w].pc = "gcDelete" /\ rq'[w].pc = "idle"
       /\ \A w \in Workers :
            (rq[w].pc = "gcDelete" /\ rq'[w].pc # "gcDelete") => fs' = noObject]_vars

\* a committed object, ttl old, has been deleted by GC
C22_Witness ==
    /\ okCommit
    /\ rq[1].resp.op = "GC"
    /\ fs = noObject
    /\ now >= objTTL

\* C26 (as stated): a deliver frame is written at most once to one socket.
C26_WrittenOnce ==
    [][\A c \in Conns : PushWriteOk(c) =>
          Head(th[c].frames).seq \notin got[th[c].cur]]_vars

\* C26 (amended): one push loop writes a frame at most once, and a frame is
\* written again to a socket that already got it only by a push whose
\* snapshot found its seq above the side's acknowledged watermark.
C26_WrittenOncePerPush ==
    [][\A c \in Conns : PushWriteOk(c) =>
          LET env == Head(th[c].frames)
          IN  /\ \A f \in Range(th'[c].frames) : f.seq # env.seq
              /\ env.seq \in got[th[c].cur] => env.seq > th[c].snapAck]_vars

\* no socket was ever displaced or closed, and a push is about to write a
\* frame to the socket that has already been written it
C26_Witness ==
    /\ \A d \in Conns : closeFrame[d] = <<>> /\ ~closed[d]
    /\ \E c \in Conns :
          /\ th[c].pc = "pushWrite"
          /\ Head(th[c].frames).seq \in got[th[c].cur]

\* Register has displaced socket d
displaced(d) == d # NoConn /\ closeFrame[d] = <<1000, "replaced">>

\* C27 (as stated): no push loop writes, or attempts to write, a deliver
\* frame to a socket that Register has displaced.
C27_NoAttemptAfterReplace ==
    [][\A c \in Conns : (PushWriteOk(c) \/ PushWriteFail(c)) =>
          ~displaced(th[c].cur)]_vars

\* C27 (amended): no deliver frame is written to a displaced socket, the
\* check of a loop made after the displacement stops the loop, and the one
\* attempt of a loop that had passed its check before fails and stops it.
C27_NoWriteAfterReplace ==
    [][\A c \in Conns :
          /\ PushWriteOk(c) => ~displaced(th[c].cur)
          /\ (PushCheck(c) /\ displaced(th[c].cur)) => th'[c].pc = "pushEnd"
          /\ (th[c].pc = "pushWrite" /\ displaced(th[c].cur) /\ th'[c] # th[c]) =>
                /\ th'[c].pc = "pushEnd"
                /\ got' = got]_vars

\* a loop passed its check and its socket was displaced before the write
C27_Witness ==
    \E c \in Conns : th[c].pc = "pushWrite" /\ displaced(th[c].cur)

\* C28: byConn and conns are in lockstep: socket c is a key of byConn with
\* value (appID, s) exactly if the room exists and its conns[s] is c; a
\* displaced socket is not in byConn; every byConn entry refers to a room
\* that exists, so the room GC has not removed a room that is referred to.
C28_Lockstep ==
    /\ \A c \in Conns, s \in Sides :
          (c \in DOMAIN byConn /\ byConn[c] = [appID |-> AppID, side |-> s])
             <=> (live /\ s \in DOMAIN rooms[AppID].conns
                       /\ rooms[AppID].conns[s] = c)
    /\ \A c \in Conns : displaced(c) => c \notin DOMAIN byConn
    /\ \A c \in DOMAIN byConn :
          byConn[c].appID \in AppIDs /\ rooms[byConn[c].appID] # NoRoom

\* a socket was displaced, its replacement is registered in both maps, and
\* the room has been idle for longer than roomTTL
C28_Witness ==
    \E c, d \in Conns :
        /\ displaced(c)
        /\ d \in DOMAIN byConn
        /\ byConn[d].side = th[c].side
        /\ live
        /\ rooms[AppID].idle > roomTTL

\* C24: an upgrade request whose appID does not parse or whose side is
\* neither A nor B is answered 400 and changes nothing: no room is created,
\* no socket registered, displaced or closed, no mailbox changed.
C24_RejectedBeforeMutation ==
    [][\A c \in Conns, a \in RequestAppIDs, s \in RequestSides :
          (Upgrade(c, a, s) /\ (a \notin AppIDs \/ s \notin {"A", "B"})) =>
             /\ th'[c].pc = "400"
             /\ \A d \in Conns \ {c} : th'[d] = th[d]
             /\ UNCHANGED <<rooms, byConn, unreg, closed, closeFrame, got,
                            roomFull, assigned, okSeqs, ackFloor, sig, sent>>]_vars

\* a request was refused while both sides were connected, and they still are
C24_Witness ==
    \E c \in Conns :
        /\ th[c].pc = "400"
        /\ RoomSize(AppID) = 2
        /\ \A d \in Conns : closeFrame[d] = <<>>

\* socket c is the registered handle of its side
handle(c) ==
    /\ c \in DOMAIN byConn
    /\ live
    /\ byConn[c].side \in DOMAIN rooms[AppID].conns
    /\ rooms[AppID].conns[byConn[c].side] = c

\* C23: a call of WritePingConn for socket c goes on to write exactly if c is
\* the registered handle of its side, and then pings c; otherwise it returns
\* an error and no ping is written to any socket. Every ping written is
\* written to c by a call whose check found c registered.
C23_PingOnlyRegistered ==
    [][\A c \in Conns :
          /\ (PingCheck(c) /\ handle(c)) =>
                ping'[c].pc = "write" /\ ping'[c].wrap = c
          /\ (PingCheck(c) /\ ~handle(c)) =>
                /\ ping'[c].pc = "done"
                /\ ping'[c].err \in {"connection not registered", "room not found",
                                     "connection replaced"}
                /\ \A d \in Conns : ping'[d].wrote = ping[d].wrote
          /\ ping'[c].wrote # ping[c].wrote =>
                /\ ping[c].pc = "write"
                /\ ping'[c].wrote = ping[c].wrote \cup {c}]_vars

\* the ping task of one socket has written a ping to it, the call of the
\* task of a displaced socket has returned "connection not registered"
C23_Witness ==
    \E c, d \in Conns :
        /\ ping[c].wrote = {c}
        /\ displaced(d)
        /\ ping[d].err = "connection not registered"

\* C30: the ping task of a socket that has been replaced or unregistered
\* ends: its next WritePingConn fails at the check, the task closes its
\* socket and returns, for good; and a task pings no socket but its own, so
\* never the replacement.
C30_PingTaskEnds ==
    /\ \A c \in Conns :
          (spawned(c) /\ c \notin DOMAIN byConn) ~> (ping[c].pc = "done" /\ closed[c])
    /\ [][\A c \in Conns :
             /\ (PingCheck(c) /\ c \notin DOMAIN byConn) =>
                   ping'[c].pc = "done" /\ closed'[c]
             /\ ping[c].pc = "done" => ping'[c] = ping[c]]_vars
    /\ [](\A c \in Conns : ping[c].wrote \subseteq {c})

\* a socket was pinged by its task and then displaced; the task's next call
\* failed and the task has closed the socket and returned, while the
\* replacement is registered and was pinged by its own task only
C30_Witness ==
    \E c, d \in Conns :
        /\ displaced(d)
        /\ ping[d].pc = "done"
        /\ ping[d].wrote = {d}
        /\ ping[d].err = "connection not registered"
        /\ handle(c)
        /\ ping[c].pc = "tick"
        /\ ping[c].wrote = {c}

\* C25: the goroutine that holds the engine mutex holds no connection's
\* write mutex, and no step it takes while holding the engine mutex writes
\* to a socket or closes one.
C25_NoSocketIOUnderMu ==
    /\ [](\A d \in Conns : wmu[d] # NoConn => wmu[d] # mu)
    /\ [][(mu # NoConn /\ mu' = mu) =>
            (th'[mu] # th[mu] =>
                /\ closeFrame' = closeFrame
                /\ closed' = closed
                /\ got' = got
                /\ roomFull' = roomFull
                /\ sig' = sig)]_vars

\* socket c is in byConn or in the conns of the room
inMaps(c) ==
    \/ c \in DOMAIN byConn
    \/ live /\ \E s \in DOMAIN rooms[AppID].conns : rooms[AppID].conns[s] = c

\* the read of socket c has failed, or a write to it
failed(c) == closed[c] \/ th[c].pc \in {"unregistered", "done"}

\* the deliver, room_full and signaling frames written to socket c
dataTo(c) == <<got[c], roomFull[c], sig[c]>>

\* C29: a socket whose read has failed, or a push, broadcast or event write
\* to it, is eventually closed and in neither conns nor byConn; from the
\* failure on no frame is written to it, and once it is out of the maps it
\* is not registered again.
C29_FailedConnRemoved ==
    /\ \A c \in Conns : failed(c) ~> (closed[c] /\ ~inMaps(c))
    /\ [][\A c \in Conns :
             /\ closed[c] => closed'[c] /\ dataTo(c)' = dataTo(c)
             /\ (failed(c) /\ ~inMaps(c)) => ~inMaps(c)']_vars

\* a push write to a socket failed while its handler was reading; the
\* spawned Unregister has run and the socket is closed and out of the maps
C29_Witness ==
    \E c \in Conns :
        /\ closed[c]
        /\ closeFrame[c] = <<>>
        /\ th[c].pc = "read"
        /\ ~inMaps(c)
        /\ unreg = {}

ackedTo(mb1, mb, n) ==
    /\ mb1.nextSeq = mb.nextSeq
    /\ mb1.deliveredUpTo = Max(mb.deliveredUpTo, n)
    /\ IF n > mb.deliveredUpTo
       THEN \E k \in 0..Len(mb.queue) :
               /\ mb1.queue = SubSeq(mb.queue, k + 1, Len(mb.queue))
               /\ \A i \in 1..k : mb.queue[i].seq <= n
               /\ k < Len(mb.queue) => mb.queue[k + 1].seq > n
       ELSE mb1.queue = mb.queue

\* C32: Hello and AckUpTo for an appID without a room create no room and
\* change nothing. On a room, both leave the caller's mailbox advanced and
\* trimmed alike and the peer's mailbox alone; AckUpTo starts no push, writes
\* no frame and touches lastActivity whether or not the watermark rose.
C32_HelloAckEffects ==
    [][\A c \in Conns :
          /\ ((HelloCall(c) \/ AckCall(c)) /\ ~live) =>
                /\ rooms' = rooms
                /\ th' = [th EXCEPT ![c] = reading(th[c])]
                /\ UNCHANGED <<byConn, unreg, closed, closeFrame, got, roomFull,
                               assigned, okSeqs, ackFloor, sig, sent>>
          /\ ((HelloCall(c) \/ AckCall(c)) /\ live) =>
                /\ live'
                /\ ackedTo(rooms'[AppID].mboxes[th[c].side], mbox(th[c].side),
                           th[c].msg)
                /\ \A p \in Sides \ {th[c].side} :
                      rooms'[AppID].mboxes[p] = mbox(p)
                /\ rooms'[AppID].conns = rooms[AppID].conns
          /\ (AckCall(c) /\ live) =>
                /\ rooms'[AppID].idle = 0
                /\ th' = [th EXCEPT ![c] = reading(th[c])]
                /\ got' = got]_vars

\* a hello or delivered frame was read from a socket and, before the Hub
\* was called with it, the sockets were unregistered and the room collected
C32_Witness ==
    /\ ~live
    /\ \E c \in Conns : th[c].pc \in {"hello", "delivered"}

\* C33 (as stated): every entry queued for side T, and every deliver frame
\* of a push to T, was sent by the other side.
C33_FromPeerOnly ==
    /\ live => \A t \in Sides : \A q \in Range(mbox(t).queue) : q.from # t
    /\ \A c \in Conns : inPush(c) =>
          \A f \in Range(th[c].frames) : f.from # th[c].pside

\* C33 (amended): a send frame is queued in the mailbox of the side its `to`
\* names, stamped with the side its socket was opened as; the other mailbox
\* stays as it was, and a deliver frame carries the stamp of its entry.
C33_QueuedForNamedSide ==
    [][/\ \A c \in Conns, to \in Sides, p \in Payloads :
            Enqueue(c, to, p) =>
               LET old == IF live THEN mbox(to).queue ELSE <<>>
               IN  /\ rooms'[AppID].mboxes[to].queue =
                         Append(old, [seq |-> nextSeqOf(to) + 1,
                                      from |-> th[c].side, payload |-> p])
                   /\ \A t \in Sides \ {to} :
                         rooms'[AppID].mboxes[t] =
                            (IF live THEN mbox(t) ELSE newMailbox)
       /\ \A c \in Conns : (inPush(c)' /\ ~inPush(c)) =>
            \A f \in Range(th'[c].frames) :
               f \in Range(rooms'[AppID].mboxes[th'[c].pside].queue)]_vars

\* side B has sent to B: its own mailbox holds an entry stamped B, and the
\* frame has been written to its socket
C33_Witness ==
    /\ live
    /\ \E q \in Range(mbox("B").queue) : q.from = "B"
    /\ \E c \in Conns : th[c].side = "B" /\ got[c] # {}

\* C34: a signaling frame read from a socket opened as side S is never
\* written to a socket bound to side S, also when the sending socket was
\* displaced before its Broadcast ran.
C34_OtherSideOnly ==
    [][\A c, x \in Conns :
          SignalWriteOk(c, x) => th[x].side # th[c].side]_vars

\* C36: whenever GET of the blob serves a body, the entity tag it sends is
\* the hex SHA-256 of exactly the bytes it sends.
C36_ETagOfServedBytes ==
    (rq[1].resp.op = "GET" /\ rq[1].resp.status = 200) =>
        rq[1].resp.etag = sha256(rq[1].resp.body)

\* meta.json says the object is committed
committedNow == fs.meta.ex /\ fs.meta.full /\ fs.meta.m.committed

\* C37 (as stated): once meta.committed is true it stays true while the
\* object exists, however PutBlob and Commit on the id interleave.
C37_CommittedStays ==
    [][(committedNow /\ fs'.dir) => committedNow']_vars

\* a PutBlob in the middle of writeJSON with a meta record it read before
\* the commit was written
staleWriter(v) ==
    /\ rq[v].op = "PutBlob"
    /\ rq[v].pc \in {"wjEncode", "wjRename"}
    /\ ~rq[v].m.committed

\* C37 (amended): a PutBlob that reads meta.json after the commit was
\* written carries committed = true into the record it writes back, and
\* meta.committed goes from true to false only when a PutBlob writes back a
\* record it read before the commit, or when a writeJSON renames a
\* meta.json.tmp that is no longer the record it wrote there.
C37_ResetOnlyByOverlap ==
    [][/\ \A w \in Workers :
            (PutBlobMeta(w) /\ committedNow) =>
                rq'[w].pc = "wjCreate" /\ rq'[w].m.committed
       /\ (committedNow /\ ~committedNow') =>
            \E w \in Workers :
               \/ staleWriter(w) /\ (WriteJSONEncode(w) \/ WriteJSONRename(w))
               \/ /\ WriteJSONRename(w)
                  /\ fs.metaTmp # [ex |-> TRUE, full |-> TRUE, m |-> rq[w].m]]_vars

\* a Commit has returned success and the blob is in place, a PutBlob that
\* raced with it has returned too, and meta.json says not committed
C37_Witness ==
    /\ okCommit
    /\ fs.blob.ex
    /\ fs.meta.ex /\ fs.meta.full /\ ~fs.meta.m.committed
    /\ okBlobs # {}
    /\ \A w \in Workers : rq[w].pc = "idle"

\* C38: an object whose Create has returned success is not removed by GC
\* before ttl has passed since its createdAt, however GC and Create
\* interleave.
C38_NoEarlyRemoval ==
    [][(created = "ok" /\ fs.dir /\ ~fs'.dir) => now >= objTTL]_vars

\* a Commit that has renamed blob.tmp to blob and not yet replaced meta.json
afterRename(r) ==
    r.op = "Commit" /\ r.pc \in {"wjCreate", "wjEncode", "wjRename"}

\* the process has died inside such a Commit
crashedInCommit == \E i \in DOMAIN crashed : afterRename(crashed[i][1])

handlerWrites(c, x) ==
    th[c].pc \in {"pushIO", "evtIO", "sigIO"} /\ th[c].cur = x

\* the ping task of socket c is inside its write to x
pingWrites(c, x) == ping[c].pc = "io" /\ ping[c].wrap = x

\* Register on socket c holds h.mu and the wmu of the connection x it evicts
evicts(c, x) ==
    /\ th[c].pc = "regEvict"
    /\ mu = c
    /\ oldConn(rooms[AppID], th[c].side) = x

\* the connections whose wmu task h holds
heldBy(h) == {x \in Conns : wmu[x] = h}

\* a step of a task that holds a mutex
HolderStep ==
    \E c \in Conns :
       \/ RegisterEvictLock(c) \/ RegisterEvict(c) \/ RegisterInsert(c)
       \/ PushReturn(c)
       \/ PushIOOk(c) \/ PushIOFail(c)
       \/ EventIOOk(c) \/ EventIOFail(c)
       \/ SignalIOOk(c) \/ SignalIOFail(c)
       \/ PingIOOk(c) \/ PingIOFail(c)

\* C39: no circular wait on h.mu and the write mutexes. Whoever holds a wmu
\* is inside a write and waits for no mutex, or is the Register that holds
\* h.mu and evicts that connection; no task holds two write mutexes; the
\* holder of h.mu is inside Register or has come back from a push and waits
\* at most for the wmu of the connection it evicts, which it does not hold;
\* whenever a mutex is held, a holder can take its next step; and a push
\* returns to its caller with h.mu taken again by that very task, so that
\* the caller's deferred Unlock releases a mutex it holds.
C39_NoCircularWait ==
    /\ \A x \in Conns :
          wmu[x] # NoConn =>
             \/ wmu[x] \in Conns /\ (handlerWrites(wmu[x], x) \/ evicts(wmu[x], x))
             \/ \E c \in Conns : wmu[x] = pingId(c) /\ pingWrites(c, x)
    /\ \A c \in Conns : /\ Cardinality(heldBy(c)) <= 1
                        /\ Cardinality(heldBy(pingId(c))) <= 1
    /\ mu # NoConn =>
          /\ th[mu].pc \in {"regLocked", "regEvict", "regInsert", "pushReturn"}
          /\ th[mu].pc # "regEvict" => heldBy(mu) = {}
    /\ \A c \in Conns :
          th[c].pc \in {"regLocked", "regEvict", "regInsert", "pushReturn"} => mu = c
    /\ (mu # NoConn \/ \E x \in Conns : wmu[x] # NoConn) => ENABLED HolderStep

\* Register on one socket holds h.mu and waits for the wmu of the connection
\* it is about to evict, which a writer holds in the middle of its write
C39_Witness ==
    \E c \in Conns :
       LET old == oldConn(rooms[AppID], th[c].side)
       IN  /\ mu = c
           /\ th[c].pc = "regLocked"
           /\ old # NoConn
           /\ wmu[old] # NoConn

====
